---- MODULE Spec2Model ----
(***************************************************************************)
(* Model of the request gateway of skyflow-runtime-mcp:                    *)
(*   - credential resolution      (lib/middleware/authenticateBearer)      *)
(*   - anonymous rate limiting    (lib/middleware/rateLimiter)             *)
(*   - vault configuration        (lib/validation/vaultConfig)             *)
(*   - the POST /mcp handler and the per-request AsyncLocalStorage context *)
(*     (server.ts)                                                         *)
(*                                                                         *)
(* JavaScript strings are modelled as sequences of one-character strings,  *)
(* so that prefix tests, split, trim and the regular expressions of the    *)
(* source are computed rather than assumed.  The values undefined and null *)
(* are one-element sequences holding a word that is not a character.       *)
(***************************************************************************)
EXTENDS Integers, Sequences, FiniteSets, TLC

\* ------------------------------------------------------------------------
\* Bounds of the model
\* ------------------------------------------------------------------------
\* number of requests the gateway receives in one behaviour
NumRequests == 2
\* the gateway clock runs from 0 to GwMaxTicks * TickMs
GwMaxTicks == 1
\* the clock of the limiter-only specification runs to MaxTicks * TickMs
MaxTicks == 3
\* ANON_MODE_RATE_LIMIT_REQUESTS ranges over 1..MaxMaxRequests
MaxMaxRequests == 2
\* ANON_MODE_RATE_LIMIT_WINDOW_MS ranges over TickMs * (1..MaxWindowTicks)
MaxWindowTicks == 2
\* number of middleware calls recorded per client in the limiter-only spec
MaxCalls == 3
\* the clock advances in steps of TickMs milliseconds
TickMs == 500
\* number of entries of an X-Forwarded-For chain in a direct call
MaxChain == 3
\* length of what follows "Bearer " in an Authorization header
MaxRemainder == 5
\* number of client-supplied entries in front of the proxy's entry in the
\* two-run specification
MaxSpoof == 1
\* the longest host, in dot-delimited segments, of the URLs given to
\* extractClusterId
MaxSegments == 3
\* the longest string of placeholder characters given to looksLikePlaceholder
MaxPlaceholder == 4
\* the longest value of an ANON_MODE_RATE_LIMIT_* variable
MaxEnvLen == 3
\* clock steps per cleanup interval where the interval timer is modelled
StepsPerInterval == 2
\* cleanup intervals the clock runs through where the timer is modelled
SweepRounds == 2

\* ------------------------------------------------------------------------
\* JavaScript values
\* ------------------------------------------------------------------------
Undefined == <<"undefined">>
Null == <<"null">>

UpperChars ==
  {"A","B","C","D","E","F","G","H","I","J","K","L","M",
   "N","O","P","Q","R","S","T","U","V","W","X","Y","Z"}
LowerChars ==
  {"a","b","c","d","e","f","g","h","i","j","k","l","m",
   "n","o","p","q","r","s","t","u","v","w","x","y","z"}
DigitChars == {"0","1","2","3","4","5","6","7","8","9"}
\* the characters String.prototype.trim removes (those the model uses)
WhitespaceChars == {" ", "\t", "\n"}

\* JavaScript truthiness of an optional string: undefined and "" are falsy
Truthy(v) == v # Undefined /\ v # Null /\ v # <<>>

\* a || b on optional strings
OrElse(a, b) == IF Truthy(a) THEN a ELSE b

\* String.prototype.startsWith
StartsWith(s, p) ==
  /\ Len(s) >= Len(p)
  /\ SubSeq(s, 1, Len(p)) = p

\* s.startsWith(p, i - 1): p occurs in s at the 1-based position i
StartsWithAt(s, p, i) ==
  /\ i >= 1
  /\ Len(s) >= i + Len(p) - 1
  /\ SubSeq(s, i, i + Len(p) - 1) = p

\* String.prototype.substring(n) (0-based n)
Substring(s, n) == IF n >= Len(s) THEN <<>> ELSE SubSeq(s, n + 1, Len(s))

RECURSIVE TrimStart(_)
TrimStart(s) ==
  IF s # <<>> /\ Head(s) \in WhitespaceChars THEN TrimStart(Tail(s)) ELSE s

RECURSIVE TrimEnd(_)
TrimEnd(s) ==
  IF s # <<>> /\ s[Len(s)] \in WhitespaceChars
    THEN TrimEnd(SubSeq(s, 1, Len(s) - 1))
    ELSE s

\* String.prototype.trim
Trim(s) == TrimEnd(TrimStart(s))

\* String.prototype.split(sep) for a one-character separator: the list of
\* the pieces between separators, empty pieces included
RECURSIVE SplitAcc(_, _, _, _)
SplitAcc(s, sep, cur, acc) ==
  IF s = <<>> THEN Append(acc, cur)
  ELSE IF Head(s) = sep THEN SplitAcc(Tail(s), sep, <<>>, Append(acc, cur))
  ELSE SplitAcc(Tail(s), sep, Append(cur, Head(s)), acc)

Split(s, sep) == SplitAcc(s, sep, <<>>, <<>>)

\* every character of s lies in the set cs
AllIn(s, cs) == \A i \in 1..Len(s) : s[i] \in cs

\* ------------------------------------------------------------------------
\* Credential resolution (authenticateBearer.ts)
\* ------------------------------------------------------------------------
\* the character class [A-Za-z0-9_-] of base64urlRegex
Base64UrlChars == UpperChars \cup LowerChars \cup DigitChars \cup {"_", "-"}

\* a shape test that does not count the parts
looksLikeJwt_anyCount(value) ==
  LET parts == Split(value, ".") IN
    \A i \in 1..Len(parts) :
      Len(parts[i]) > 0 /\ AllIn(parts[i], Base64UrlChars)

\* looksLikeJwt: three dot-separated parts, each non-empty base64url
looksLikeJwt(value) ==
  LET parts == Split(value, ".") IN
    IF Len(parts) # 3 THEN FALSE
    ELSE \A i \in 1..Len(parts) :
           Len(parts[i]) > 0 /\ AllIn(parts[i], Base64UrlChars)

BearerPrefix == <<"B", "e", "a", "r", "e", "r", " ">>

\* a TokenExtractionResult {isPresent, token?, error?}
TokenResult(p, t, e) == [isPresent |-> p, token |-> t, error |-> e]

ErrMissingAuthHeader == <<"Missing or invalid Authorization header">>
ErrBearerEmpty == <<"Bearer token is empty">>
ErrMissingApiKey == <<"Missing or invalid apiKey query parameter">>
ErrApiKeyEmpty == <<"API key is empty">>
\* the message of extractCredentials; it names both input channels
ErrMissingCredentials ==
  <<"Missing or invalid credentials. Provide either Authorization header with Bearer token/API key, or apiKey query parameter.">>

extractBearerToken(authHeader) ==
  IF ~Truthy(authHeader) \/ ~StartsWith(authHeader, BearerPrefix)
    THEN TokenResult(FALSE, Undefined, ErrMissingAuthHeader)
    ELSE LET token == Substring(authHeader, 7) IN
      IF ~Truthy(token) \/ Len(Trim(token)) = 0
        THEN TokenResult(FALSE, Undefined, ErrBearerEmpty)
        ELSE TokenResult(TRUE, token, Undefined)

\* an API key taken as it came
extractApiKey_untrimmed(apiKeyParam) ==
  IF ~Truthy(apiKeyParam)
    THEN TokenResult(FALSE, Undefined, ErrMissingApiKey)
    ELSE TokenResult(TRUE, apiKeyParam, Undefined)

extractApiKey(apiKeyParam) ==
  IF ~Truthy(apiKeyParam)
    THEN TokenResult(FALSE, Undefined, ErrMissingApiKey)
    ELSE LET apiKey == Trim(apiKeyParam) IN
      IF Len(apiKey) = 0
        THEN TokenResult(FALSE, Undefined, ErrApiKeyEmpty)
        ELSE TokenResult(TRUE, apiKey, Undefined)

\* the credentials object {token} or {apiKey}; a field that is not set is
\* Undefined, and defined = FALSE stands for the value undefined
NoCredentials == [defined |-> FALSE, token |-> Undefined, apiKey |-> Undefined]
TokenCredentials(t) == [defined |-> TRUE, token |-> t, apiKey |-> Undefined]
\* an object with both fields set
ApiKeyCredentials_both(k) == [defined |-> TRUE, token |-> k, apiKey |-> k]
ApiKeyCredentials(k) == [defined |-> TRUE, token |-> Undefined, apiKey |-> k]

\* a CredentialsExtractionResult {isPresent, credentials?, error?}
CredentialsResult(p, c, e) == [isPresent |-> p, credentials |-> c, error |-> e]

\* a resolution that tries the query parameter first
extractCredentials_queryFirst(authHeader, apiKeyParam) ==
  LET apiKeyResult == extractApiKey(apiKeyParam)
      bearerResult == extractBearerToken(authHeader)
  IN IF apiKeyResult.isPresent /\ Truthy(apiKeyResult.token)
       THEN CredentialsResult(TRUE, ApiKeyCredentials(apiKeyResult.token), Undefined)
     ELSE IF bearerResult.isPresent /\ Truthy(bearerResult.token)
       THEN IF looksLikeJwt(bearerResult.token)
              THEN CredentialsResult(TRUE, TokenCredentials(bearerResult.token), Undefined)
              ELSE CredentialsResult(TRUE, ApiKeyCredentials(bearerResult.token), Undefined)
     ELSE CredentialsResult(FALSE, NoCredentials, ErrMissingCredentials)

extractCredentials(authHeader, apiKeyParam) ==
  LET bearerResult == extractBearerToken(authHeader) IN
    IF bearerResult.isPresent /\ Truthy(bearerResult.token)
      THEN IF looksLikeJwt(bearerResult.token)
             THEN CredentialsResult(TRUE, TokenCredentials(bearerResult.token), Undefined)
             ELSE CredentialsResult(TRUE, ApiKeyCredentials(bearerResult.token), Undefined)
      ELSE LET apiKeyResult == extractApiKey(apiKeyParam) IN
        IF apiKeyResult.isPresent /\ Truthy(apiKeyResult.token)
          THEN CredentialsResult(TRUE, ApiKeyCredentials(apiKeyResult.token), Undefined)
          ELSE CredentialsResult(FALSE, NoCredentials, ErrMissingCredentials)

\* ------------------------------------------------------------------------
\* Vault configuration (vaultConfig.ts)
\* ------------------------------------------------------------------------
\* [A-Z_] and [A-Z0-9_] under the i flag
NameStartChars == UpperChars \cup LowerChars \cup {"_"}
NameChars == NameStartChars \cup DigitChars

\* [A-Z_][A-Z0-9_]* matches the whole of s
IsName(s) ==
  /\ Len(s) >= 1
  /\ s[1] \in NameStartChars
  /\ AllIn(s, NameChars)

\* s = pre NAME post with NAME matching [A-Z_][A-Z0-9_]*
Wrapped(s, pre, post) ==
  /\ Len(s) >= Len(pre) + Len(post) + 1
  /\ SubSeq(s, 1, Len(pre)) = pre
  /\ SubSeq(s, Len(s) - Len(post) + 1, Len(s)) = post
  /\ IsName(SubSeq(s, Len(pre) + 1, Len(s) - Len(post)))

\* the patterns without their ^ and $ anchors: a placeholder anywhere in
\* the value
looksLikePlaceholder_anywhere(value) ==
  /\ Truthy(value)
  /\ \E i \in 1..Len(value), j \in 1..Len(value) :
       LET part == SubSeq(value, i, j) IN
         \/ Wrapped(part, <<"$", "{">>, <<"}">>)
         \/ Wrapped(part, <<"$">>, <<>>)
         \/ Wrapped(part, <<"{", "{">>, <<"}", "}">>)
         \/ Wrapped(part, <<"%">>, <<"%">>)

looksLikePlaceholder(value) ==
  IF ~Truthy(value) THEN FALSE
  ELSE IF Wrapped(value, <<"$", "{">>, <<"}">>) THEN TRUE
  ELSE IF Wrapped(value, <<"$">>, <<>>) THEN TRUE
  ELSE IF Wrapped(value, <<"{", "{">>, <<"}", "}">>) THEN TRUE
  ELSE IF Wrapped(value, <<"%">>, <<"%">>) THEN TRUE
  ELSE FALSE

HttpsPrefix == <<"h", "t", "t", "p", "s", ":", "/", "/">>
HttpPrefix == <<"h", "t", "t", "p", ":", "/", "/">>
DotVault == <<".", "v", "a", "u", "l", "t">>

\* the position of the first dot of s at or after i, Len(s) + 1 if none
RECURSIVE NextDot(_, _)
NextDot(s, i) ==
  IF i > Len(s) THEN Len(s) + 1
  ELSE IF s[i] = "." THEN i
  ELSE NextDot(s, i + 1)

\* ([^.]+)\.vault matched at position i: the captured segment, or Null.
\* [^.]+ cannot cross a dot, so it must end at the first dot after i.
SegmentAt(s, i) ==
  LET d == NextDot(s, i) IN
    IF i <= Len(s) /\ d > i /\ StartsWithAt(s, DotVault, d)
      THEN SubSeq(s, i, d - 1)
      ELSE Null

\* (?:https?:\/\/)?([^.]+)\.vault matched at position i: the optional
\* group is tried first, then skipped
ClusterAt(s, i) ==
  IF StartsWithAt(s, HttpsPrefix, i) /\ SegmentAt(s, i + Len(HttpsPrefix)) # Null
    THEN SegmentAt(s, i + Len(HttpsPrefix))
  ELSE IF StartsWithAt(s, HttpPrefix, i) /\ SegmentAt(s, i + Len(HttpPrefix)) # Null
    THEN SegmentAt(s, i + Len(HttpPrefix))
  ELSE SegmentAt(s, i)

\* String.prototype.match without the g flag: the leftmost match
RECURSIVE ClusterFrom(_, _)
ClusterFrom(s, i) ==
  IF i > Len(s) THEN Null
  ELSE IF ClusterAt(s, i) # Null THEN ClusterAt(s, i)
  ELSE ClusterFrom(s, i + 1)

extractClusterId(vaultUrl) == ClusterFrom(vaultUrl, 1)

ErrVaultIdRequired ==
  <<"vaultId is required (provide as query parameter or VAULT_ID environment variable)">>
ErrVaultUrlRequired ==
  <<"vaultUrl is required (provide as query parameter or VAULT_URL environment variable)">>
ErrVaultUrlFormat ==
  <<"Invalid vaultUrl format. Expected format: https://<clusterId>.vault.skyflowapis.com or <clusterId>.vault.skyflowapis.com">>

\* the VaultConfig object; defined = FALSE stands for the value undefined
NoVaultConfig ==
  [defined |-> FALSE, vaultId |-> Undefined, vaultUrl |-> Undefined,
   clusterId |-> Undefined, accountId |-> Undefined, workspaceId |-> Undefined]

\* a ValidationResult {isValid, error?, config?}
ValidationError(e) == [isValid |-> FALSE, error |-> e, config |-> NoVaultConfig]

\* the URL is looked at before the vault id
validateVaultConfig_urlFirst(params) ==
  IF ~Truthy(params.vaultUrl) THEN ValidationError(ErrVaultUrlRequired)
  ELSE IF ~Truthy(params.vaultId) THEN ValidationError(ErrVaultIdRequired)
  ELSE IF ~Truthy(extractClusterId(params.vaultUrl))
    THEN ValidationError(ErrVaultUrlFormat)
  ELSE [isValid |-> TRUE,
        error |-> Undefined,
        config |-> [defined |-> TRUE,
                    vaultId |-> params.vaultId,
                    vaultUrl |-> params.vaultUrl,
                    clusterId |-> extractClusterId(params.vaultUrl),
                    accountId |-> params.accountId,
                    workspaceId |-> params.workspaceId]]

\* a cluster id taken from the vault id
validateVaultConfig_idAsCluster(params) ==
  IF ~Truthy(params.vaultId) THEN ValidationError(ErrVaultIdRequired)
  ELSE IF ~Truthy(params.vaultUrl) THEN ValidationError(ErrVaultUrlRequired)
  ELSE IF ~Truthy(extractClusterId(params.vaultUrl))
    THEN ValidationError(ErrVaultUrlFormat)
  ELSE [isValid |-> TRUE,
        error |-> Undefined,
        config |-> [defined |-> TRUE,
                    vaultId |-> params.vaultId,
                    vaultUrl |-> params.vaultUrl,
                    clusterId |-> params.vaultId,
                    accountId |-> params.accountId,
                    workspaceId |-> params.workspaceId]]

validateVaultConfig(params) ==
  IF ~Truthy(params.vaultId) THEN ValidationError(ErrVaultIdRequired)
  ELSE IF ~Truthy(params.vaultUrl) THEN ValidationError(ErrVaultUrlRequired)
  ELSE LET clusterId == extractClusterId(params.vaultUrl) IN
    IF ~Truthy(clusterId) THEN ValidationError(ErrVaultUrlFormat)
    ELSE [isValid |-> TRUE,
          error |-> Undefined,
          config |-> [defined |-> TRUE,
                      vaultId |-> params.vaultId,
                      vaultUrl |-> params.vaultUrl,
                      clusterId |-> clusterId,
                      accountId |-> params.accountId,
                      workspaceId |-> params.workspaceId]]

\* ------------------------------------------------------------------------
\* Anonymous rate limiter (rateLimiter.ts)
\* ------------------------------------------------------------------------
\* the first piece of a split
LastOf_first(parts) == parts[1]

\* Array.prototype.pop of the pieces of a split: the last piece
LastOf(parts) == parts[Len(parts)]

UnknownClient == <<"u", "n", "k", "n", "o", "w", "n">>

\* an identity made of the whole header
getClientId_wholeHeader(req) ==
  IF Truthy(req.xff)
    THEN Trim(req.xff)
    ELSE OrElse(req.ip, OrElse(req.remoteAddress, UnknownClient))

\* an identity that prefers the direct peer address to the header
getClientId_peerFirst(req) ==
  IF Truthy(req.ip) THEN req.ip
  ELSE IF Truthy(req.xff) THEN Trim(LastOf(Split(req.xff, ",")))
  ELSE OrElse(req.remoteAddress, UnknownClient)

\* getClientId: req.headers["x-forwarded-for"] arrives from Node's HTTP
\* parser as one string (repeated headers are joined with ", ") or undefined
getClientId(req) ==
  IF Truthy(req.xff)
    THEN Trim(LastOf(Split(req.xff, ",")))
    ELSE OrElse(req.ip, OrElse(req.remoteAddress, UnknownClient))

AnonPrefix == <<"a", "n", "o", "n", ":">>

\* Map.prototype.set
MapSet(m, k, v) == [x \in DOMAIN m \cup {k} |-> IF x = k THEN v ELSE m[x]]

\* the Map after deleting the keys in ks
MapDelete(m, ks) == [x \in DOMAIN m \ ks |-> m[x]]

\* new Map()
EmptyMap == [x \in {} |-> [count |-> 0, resetTime |-> 0]]

\* Math.ceil(a / b) for b > 0
CeilDiv(a, b) == -((-a) \div b)

MsPerSecond == 1000
TooManyRequests == 429

\* what one middleware call does: the store it leaves, whether it called
\* next(), and the status, headers and body it set on the response (a set
\* is empty when nothing was set)
LimiterOutcome(st, nx, status, headers, body) ==
  [store |-> st, next |-> nx, status |-> status, headers |-> headers,
   body |-> body]

RateLimitHeaders(limit, remaining, reset) ==
  {<<"X-RateLimit-Limit", limit>>,
   <<"X-RateLimit-Remaining", remaining>>,
   <<"X-RateLimit-Reset", reset>>}

\* a key that leaves the client identity out
RateLimitKey_shared(req) == AnonPrefix

\* the rate-limit key of a request: `anon:${clientId}`
RateLimitKey(req) == AnonPrefix \o getClientId(req)

\* the limiter applied to every request
Gated_all(req) == TRUE

\* the limiter applies to anonymous-mode requests only
Gated(req) == req.isAnonymousMode

\* a window that never runs out
Expired_never(entry, clock) == FALSE

\* now > entry.resetTime: the window of the entry has run out
Expired(entry, clock) == clock > entry.resetTime

\* the period of the cleanup interval
CLEANUP_INTERVAL_MS == 60000

\* a sweep that also removes the entries whose window ends at this instant
cleanupExpiredEntries_atResetTime(store, clock) ==
  MapDelete(store, {k \in DOMAIN store : clock >= store[k].resetTime})

\* a sweep that empties the store
cleanupExpiredEntries_clear(store, clock) ==
  MapDelete(store, DOMAIN store)

\* cleanupExpiredEntries at clock value clock: the store without the
\* entries whose window has run out
cleanupExpiredEntries(store, clock) ==
  MapDelete(store, {k \in DOMAIN store : Expired(store[k], clock)})

\* an entry that is created when absent but never reset
CurrentEntry_noExpiry(store, key, clock, cfg) ==
  IF key \notin DOMAIN store
    THEN [count |-> 0, resetTime |-> clock + cfg.windowMs]
    ELSE store[key]

\* the entry the limiter works on: the stored one, or a fresh one when
\* there is none or its window has run out
CurrentEntry(store, key, clock, cfg) ==
  IF key \notin DOMAIN store \/ Expired(store[key], clock)
    THEN [count |-> 0, resetTime |-> clock + cfg.windowMs]
    ELSE store[key]

\* Math.ceil((entry.resetTime - now) / 1000)
ResetSeconds(entry, clock) == CeilDiv(entry.resetTime - clock, MsPerSecond)

\* the limit check off by one
LimitReached_offByOne(entry, cfg) == entry.count > cfg.maxRequests

\* entry.count >= config.maxRequests: this request would exceed the limit
LimitReached(entry, cfg) == entry.count >= cfg.maxRequests

\* the remaining quota read before the increment
Remaining_beforeIncrement(entry, cfg) == cfg.maxRequests - (entry.count - 1)

\* config.maxRequests - entry.count, read after entry.count++
Remaining(entry, cfg) == cfg.maxRequests - entry.count

\* what the limiter holds of the entry between its check and its increment
NoHeld == [count |-> 0, resetTime |-> 0, resetSeconds |-> 0]

\* a check that restarts the window of a client it rejects
limiterCheck_penalty(store, clock, cfg, req) ==
  IF ~Gated(req)
    THEN [pending |-> FALSE, held |-> NoHeld,
          out |-> LimiterOutcome(store, TRUE, {}, {}, {})]
    ELSE
      LET key == RateLimitKey(req)
          entry == CurrentEntry(store, key, clock, cfg)
          resetSeconds == ResetSeconds(entry, clock)
          held == [count |-> entry.count, resetTime |-> entry.resetTime,
                   resetSeconds |-> resetSeconds]
          penalised == [entry EXCEPT !.resetTime = clock + cfg.windowMs]
      IN IF LimitReached(entry, cfg)
           THEN [pending |-> FALSE, held |-> held,
                 out |-> LimiterOutcome(MapSet(store, key, penalised), FALSE,
                           {TooManyRequests},
                           RateLimitHeaders(cfg.maxRequests, 0, resetSeconds),
                           {<<"retryAfterSeconds", resetSeconds>>})]
           ELSE [pending |-> TRUE, held |-> held,
                 out |-> LimiterOutcome(MapSet(store, key, entry), FALSE,
                           {}, {}, {})]

\* lines 70-105 of the middleware at clock value clock: the bypass, the
\* lookup, the expiry reset and the limit check.  pending: the request goes
\* on to the increment with the entry it holds
limiterCheck(store, clock, cfg, req) ==
  IF ~Gated(req)
    THEN [pending |-> FALSE, held |-> NoHeld,
          out |-> LimiterOutcome(store, TRUE, {}, {}, {})]
    ELSE
      LET key == RateLimitKey(req)
          entry == CurrentEntry(store, key, clock, cfg)
          store1 == MapSet(store, key, entry)
          resetSeconds == ResetSeconds(entry, clock)
          held == [count |-> entry.count, resetTime |-> entry.resetTime,
                   resetSeconds |-> resetSeconds]
      IN IF LimitReached(entry, cfg)
           THEN [pending |-> FALSE, held |-> held,
                 out |-> LimiterOutcome(store1, FALSE, {TooManyRequests},
                           RateLimitHeaders(cfg.maxRequests, 0, resetSeconds),
                           {<<"retryAfterSeconds", resetSeconds>>})]
           ELSE [pending |-> TRUE, held |-> held,
                 out |-> LimiterOutcome(store1, FALSE, {}, {}, {})]

\* an increment that admits the request without counting it
limiterCount_uncounted(store, cfg, req, held) ==
  LimiterOutcome(store, TRUE, {},
    RateLimitHeaders(cfg.maxRequests, cfg.maxRequests - held.count,
                     held.resetSeconds),
    {})

\* lines 107-116 of the middleware: entry.count++ on the entry object the
\* check holds, the headers and next().  The object is the one in the Map
\* under the key of the request.
limiterCount(store, cfg, req, held) ==
  LET key == RateLimitKey(req)
      attached == key \in DOMAIN store /\ store[key].resetTime = held.resetTime
      entry == IF attached
                 THEN store[key]
                 ELSE [count |-> held.count, resetTime |-> held.resetTime]
      counted == [entry EXCEPT !.count = entry.count + 1]
  IN LimiterOutcome(IF attached THEN MapSet(store, key, counted) ELSE store,
       TRUE, {},
       RateLimitHeaders(cfg.maxRequests, Remaining(counted, cfg),
                        held.resetSeconds),
       {})

\* a limiter whose window slides: every allowed request restarts it
anonymousRateLimiter_sliding(store, clock, cfg, req) ==
  LET checked == limiterCheck(store, clock, cfg, req)
      counted == limiterCount(checked.out.store, cfg, req, checked.held)
      key == RateLimitKey(req)
  IN IF checked.pending
       THEN [counted EXCEPT !.store =
               MapSet(@, key, [@[key] EXCEPT !.resetTime = clock + cfg.windowMs])]
       ELSE checked.out

\* anonymousRateLimiter(req, res, next) run at clock value clock
anonymousRateLimiter(store, clock, cfg, req) ==
  LET checked == limiterCheck(store, clock, cfg, req) IN
    IF checked.pending
      THEN limiterCount(checked.out.store, cfg, req, checked.held)
      ELSE checked.out

\* the value of a response header, for a header that was set
HeaderValue(headers, name) == (CHOOSE h \in headers : h[1] = name)[2]
HasHeader(headers, name) == \E h \in headers : h[1] = name

\* ------------------------------------------------------------------------
\* State
\* ------------------------------------------------------------------------
VARIABLES
  now,             \* Date.now()
  rateLimitStore,  \* the module-level Map of rateLimiter.ts
  config,          \* the RateLimiterConfig the middleware was created with
  win,             \* history: per client identity, the fixed window its
                   \* anonymous calls fall in and how many fell in it
  lastCall,        \* history: the latest direct call of the middleware
  env,             \* process.env, as the gateway reads it
  reqs,            \* the requests of POST /mcp, each with its req/res objects
  running,         \* the request whose synchronous code is on the stack,
                   \* 0 when the event loop is idle
  probe,           \* a direct call of one exported function: its name,
                   \* its arguments and what it returned
  twin,            \* a second run of the limiter that receives the same
                   \* requests with other client-supplied header entries
  timer            \* when the cleanup interval's next callback is due

vars ==
  <<now, rateLimitStore, config, win, lastCall, env, reqs, running, probe, twin,
    timer>>

\* the variables only the direct-call and two-run specifications change
aux == <<probe, twin, timer>>

\* the gateway runs with the tightest configuration: one request per
\* window of one millisecond, so that every clock step ends the windows
GwConfig == [maxRequests |-> 1, windowMs |-> 1]

\* no function was called directly
NoProbe == [fn |-> "none"]

\* the second run before its first request
NoTwin ==
  [store |-> EmptyMap, made |-> FALSE, key |-> <<>>, next |-> FALSE,
   firstKey |-> <<>>, firstNext |-> FALSE]

\* the configurations getAnonymousRateLimitConfig can return, within bounds
Configs ==
  [maxRequests : 1..MaxMaxRequests,
   windowMs : {TickMs * w : w \in 1..MaxWindowTicks}]

\* where requests come from: a direct peer, a peer behind the trusted proxy,
\* and the same peer with another client-supplied left-most entry
Addrs ==
  {[xff |-> Undefined, ip |-> <<"1">>, remoteAddress |-> <<"1">>],
   [xff |-> <<"9", ",", " ", "2">>, ip |-> <<"8">>, remoteAddress |-> <<"8">>],
   [xff |-> <<"7", ",", "2">>, ip |-> <<"8">>, remoteAddress |-> <<"8">>]}

\* the request object the limiter reads
LimiterReq(a, anon) ==
  [xff |-> a.xff, ip |-> a.ip, remoteAddress |-> a.remoteAddress,
   isAnonymousMode |-> anon]

Identities == {getClientId(a) : a \in Addrs}

KeyOf(id) == AnonPrefix \o id

NoWindow == [open |-> FALSE, start |-> 0, k |-> 0, admitted |-> 0]

NoEntry == [present |-> FALSE, count |-> 0, resetTime |-> 0]

\* the entry stored under a key, as the tests read it
EntryOf(store, key) ==
  IF key \in DOMAIN store
    THEN [present |-> TRUE, count |-> store[key].count,
          resetTime |-> store[key].resetTime]
    ELSE NoEntry

NoCall ==
  [made |-> FALSE, id |-> <<>>, anon |-> FALSE, at |-> 0, before |-> NoEntry,
   next |-> FALSE, status |-> {}, headers |-> {}, body |-> {}]

\* the fixed window an anonymous call of a client at clock value clock falls
\* in: the open one while clock <= start + windowMs, else a new one
WindowAt(w, clock, cfg) ==
  IF ~w.open \/ clock > w.start + cfg.windowMs
    THEN [open |-> TRUE, start |-> clock, k |-> 0, admitted |-> 0]
    ELSE w

\* the window history after an anonymous call with the given outcome
Counted(w, clock, cfg, out) ==
  LET cur == WindowAt(w, clock, cfg) IN
    [cur EXCEPT !.k = cur.k + 1,
                !.admitted = cur.admitted + (IF out.next THEN 1 ELSE 0)]

\* ------------------------------------------------------------------------
\* The gateway: POST /mcp (server.ts) behind authenticateBearer and the
\* anonymous rate limiter
\* ------------------------------------------------------------------------
Str_anonKey == <<"k", "0">>
Str_anonVault == <<"v", "0">>
Str_anonUrl == <<"c", "0">> \o DotVault
Str_jwt == <<"a", ".", "b", ".", "c">>
Str_headerKey == <<"s", "k", "y">>
Str_queryKey == <<"q">>
Str_vault == <<"v", "1">>
Str_url == HttpsPrefix \o <<"c", "1">> \o DotVault
Str_badUrl == <<"x", ".", "c", "o", "m">>
Str_phVault == <<"$", "{", "V", "}">>
Str_phUrl == <<"$", "{", "U", "}">>

\* process.env without and with the anonymous fallback; the VAULT_ID,
\* VAULT_URL, ACCOUNT_ID and WORKSPACE_ID fallbacks are not set
EnvPlain ==
  [ANON_MODE_API_KEY |-> Undefined, ANON_MODE_VAULT_ID |-> Undefined,
   ANON_MODE_VAULT_URL |-> Undefined, VAULT_ID |-> Undefined,
   VAULT_URL |-> Undefined, ACCOUNT_ID |-> Undefined,
   WORKSPACE_ID |-> Undefined]

EnvAnon ==
  [EnvPlain EXCEPT !.ANON_MODE_API_KEY = Str_anonKey,
                   !.ANON_MODE_VAULT_ID = Str_anonVault,
                   !.ANON_MODE_VAULT_URL = Str_anonUrl]

\* anonymous mode configured with a URL that names no vault cluster
EnvAnonBadUrl == [EnvAnon EXCEPT !.ANON_MODE_VAULT_URL = Str_badUrl]

EnvChoices == {EnvPlain, EnvAnon, EnvAnonBadUrl}

\* what a request carries: the Authorization header, the query parameters
\* and the addresses getClientId reads
Input(auth, key, vid, vurl) ==
  [authorization |-> auth, apiKey |-> key, vaultId |-> vid, vaultUrl |-> vurl,
   accountId |-> Undefined, workspaceId |-> Undefined,
   xff |-> Undefined, ip |-> <<"1">>, remoteAddress |-> <<"1">>]

NoInput == Input(Undefined, Undefined, Undefined, Undefined)

\* the requests the gateway receives: without credentials; with a JWT and a
\* vault; with an API key in the header and un-rendered placeholders; with
\* an API key in the query and a URL that is not a vault URL
Inputs ==
  {Input(Undefined, Undefined, Undefined, Undefined),
   Input(BearerPrefix \o Str_jwt, Undefined, Str_vault, Str_url),
   Input(BearerPrefix \o Str_headerKey, Undefined, Str_phVault, Str_phUrl),
   Input(Undefined, Str_queryKey, Str_vault, Str_badUrl)}

NoAnonVaultConfig == [defined |-> FALSE, vaultId |-> Undefined, vaultUrl |-> Undefined]

\* a Skyflow client: the object identity and the vaultConfigs it was built with
NoSkyflow ==
  [id |-> 0, vaultId |-> Undefined, clusterId |-> Undefined,
   credentials |-> NoCredentials]

\* requestContextStorage.getStore() outside run(): undefined
NoContext ==
  [bound |-> FALSE, skyflow |-> NoSkyflow, vaultId |-> Undefined,
   isAnonymousMode |-> FALSE]

\* a StreamableHTTPServerTransport: the object identity and the number of
\* times close() was called on it
NoTransport == [id |-> 0, closeCalls |-> 0]

\* the req and res objects of a request that has not arrived, with the
\* entry its limiter call holds and the history fields counted (the limiter
\* incremented the count for it), trail (the stages it passed), seen (the
\* contexts its lookups returned) and peers (the other requests that were
\* bound when it looked its context up)
NewRequest ==
  [pc |-> "new", inp |-> NoInput,
   isAnonymousMode |-> FALSE, skyflowCredentials |-> NoCredentials,
   anonVaultConfig |-> NoAnonVaultConfig,
   status |-> {}, error |-> Undefined, headers |-> {},
   held |-> NoHeld, counted |-> FALSE, trail |-> <<>>,
   skyflow |-> NoSkyflow, transport |-> NoTransport, closeListener |-> FALSE,
   asyncStore |-> NoContext, resClosed |-> FALSE,
   seen |-> {}, peers |-> {}, threw |-> FALSE]

Requests == 1..NumRequests

\* a test of the API key alone
AnonConfigured_keyOnly(e) == Truthy(e.ANON_MODE_API_KEY)

\* all three ANON_MODE_* values are set
AnonConfigured(e) ==
  /\ Truthy(e.ANON_MODE_API_KEY)
  /\ Truthy(e.ANON_MODE_VAULT_ID)
  /\ Truthy(e.ANON_MODE_VAULT_URL)

\* res.status(code).json({error: message}): the request ends here
Respond(req, code, message) ==
  [req EXCEPT !.pc = "rejected", !.status = {code}, !.error = message]

Unauthorized == 401
BadRequest == 400

\* a resolver that answers 401 and goes on to next() all the same
authenticateBearer_fallthrough(req, e) ==
  LET result == extractCredentials(req.inp.authorization, req.inp.apiKey) IN
    IF ~result.isPresent
      THEN [req EXCEPT
              !.status = {Unauthorized},
              !.error = result.error,
              !.trail = Append(@, "credentials"),
              !.pc = "limiter"]
      ELSE [req EXCEPT
              !.isAnonymousMode = FALSE,
              !.skyflowCredentials = result.credentials,
              !.trail = Append(@, "credentials"),
              !.pc = "limiter"]

\* authenticateBearer(req, res, next)
authenticateBearer(req, e) ==
  LET result == extractCredentials(req.inp.authorization, req.inp.apiKey) IN
    IF ~result.isPresent
      THEN IF AnonConfigured(e)
             THEN [req EXCEPT
                     !.isAnonymousMode = TRUE,
                     !.skyflowCredentials = ApiKeyCredentials(e.ANON_MODE_API_KEY),
                     !.anonVaultConfig =
                        [defined |-> TRUE, vaultId |-> e.ANON_MODE_VAULT_ID,
                         vaultUrl |-> e.ANON_MODE_VAULT_URL],
                     !.trail = Append(@, "credentials"),
                     !.pc = "limiter"]
             ELSE Respond(req, Unauthorized, result.error)
      ELSE [req EXCEPT
              !.isAnonymousMode = FALSE,
              !.skyflowCredentials = result.credentials,
              !.trail = Append(@, "credentials"),
              !.pc = "limiter"]

ErrPlaceholders ==
  <<"Configuration error: Query parameters contain unsubstituted placeholders">>
ErrCredentialsRequired == <<"Credentials are required">>
ErrInvalidCredentials ==
  <<"Invalid credentials. Please provide valid Skyflow bearer token or API key.">>

\* new Skyflow({vaultConfigs: [{vaultId, clusterId, credentials}]}) in the
\* handler of request r: a new object for every call
NewSkyflow(r, vaultId, clusterId, credentials) ==
  [id |-> r, vaultId |-> vaultId, clusterId |-> clusterId,
   credentials |-> credentials]

\* one transport created at module level and used by every request
NewTransport_shared(r) == [id |-> 1, closeCalls |-> 0]

\* new StreamableHTTPServerTransport(...) in the handler of request r
NewTransport(r) == [id |-> r, closeCalls |-> 0]

\* a fallback that takes the anonymous vault but leaves the credentials of
\* the client in place
AfterPlaceholderCheck_keepCredentials(req, e) ==
  LET hasPlaceholderParams ==
        looksLikePlaceholder(req.inp.vaultId) \/ looksLikePlaceholder(req.inp.vaultUrl)
  IN IF hasPlaceholderParams /\ ~req.isAnonymousMode
       THEN IF AnonConfigured(e)
              THEN [ok |-> TRUE, useAnonymousMode |-> TRUE,
                    req |-> [req EXCEPT
                      !.anonVaultConfig =
                         [defined |-> TRUE, vaultId |-> e.ANON_MODE_VAULT_ID,
                          vaultUrl |-> e.ANON_MODE_VAULT_URL]]]
              ELSE [ok |-> FALSE, useAnonymousMode |-> FALSE, req |-> req]
       ELSE [ok |-> TRUE, useAnonymousMode |-> req.isAnonymousMode, req |-> req]

\* the request after the placeholder check of the handler (lines 627-654):
\* useAnonymousMode, and the credentials and anonVaultConfig it may replace
AfterPlaceholderCheck(req, e) ==
  LET hasPlaceholderParams ==
        looksLikePlaceholder(req.inp.vaultId) \/ looksLikePlaceholder(req.inp.vaultUrl)
  IN IF hasPlaceholderParams /\ ~req.isAnonymousMode
       THEN IF AnonConfigured(e)
              THEN [ok |-> TRUE, useAnonymousMode |-> TRUE,
                    req |-> [req EXCEPT
                      !.skyflowCredentials = ApiKeyCredentials(e.ANON_MODE_API_KEY),
                      !.anonVaultConfig =
                         [defined |-> TRUE, vaultId |-> e.ANON_MODE_VAULT_ID,
                          vaultUrl |-> e.ANON_MODE_VAULT_URL]]]
              ELSE [ok |-> FALSE, useAnonymousMode |-> FALSE, req |-> req]
       ELSE [ok |-> TRUE, useAnonymousMode |-> req.isAnonymousMode, req |-> req]

\* parameters in which the query string wins over the anonymous vault
VaultParams_queryFirst(req, e, useAnonymousMode) ==
  [vaultId |-> IF Truthy(req.inp.vaultId) THEN req.inp.vaultId
               ELSE IF useAnonymousMode /\ req.anonVaultConfig.defined
                 THEN req.anonVaultConfig.vaultId
               ELSE e.VAULT_ID,
   vaultUrl |-> IF Truthy(req.inp.vaultUrl) THEN req.inp.vaultUrl
                ELSE IF useAnonymousMode /\ req.anonVaultConfig.defined
                  THEN req.anonVaultConfig.vaultUrl
                ELSE e.VAULT_URL,
   accountId |-> OrElse(req.inp.accountId, e.ACCOUNT_ID),
   workspaceId |-> OrElse(req.inp.workspaceId, e.WORKSPACE_ID)]

\* the parameters handed to validateVaultConfig (lines 656-676)
VaultParams(req, e, useAnonymousMode) ==
  [vaultId |-> IF useAnonymousMode /\ req.anonVaultConfig.defined
                 THEN req.anonVaultConfig.vaultId
                 ELSE OrElse(req.inp.vaultId, e.VAULT_ID),
   vaultUrl |-> IF useAnonymousMode /\ req.anonVaultConfig.defined
                  THEN req.anonVaultConfig.vaultUrl
                  ELSE OrElse(req.inp.vaultUrl, e.VAULT_URL),
   accountId |-> OrElse(req.inp.accountId, e.ACCOUNT_ID),
   workspaceId |-> OrElse(req.inp.workspaceId, e.WORKSPACE_ID)]

\* a handler without the try/catch around the constructor: the exception
\* leaves the handler
mcpHandler_uncaught(req, e, r, sdkAccepts) ==
  LET checked == AfterPlaceholderCheck(req, e)
      req1 == checked.req
      validation == validateVaultConfig(VaultParams(req1, e, checked.useAnonymousMode))
  IN IF ~checked.ok THEN Respond(req, BadRequest, ErrPlaceholders)
     ELSE IF ~validation.isValid THEN Respond(req1, BadRequest, validation.error)
     ELSE IF ~req1.skyflowCredentials.defined
       THEN Respond(req1, Unauthorized, ErrCredentialsRequired)
     ELSE IF ~sdkAccepts
       THEN [req1 EXCEPT !.trail = @ \o <<"vault", "construct">>,
                         !.threw = TRUE, !.pc = "rejected"]
     ELSE
       LET skyflowInstance ==
             NewSkyflow(r, validation.config.vaultId, validation.config.clusterId,
                        req1.skyflowCredentials)
       IN [req1 EXCEPT
             !.trail = @ \o <<"vault", "construct", "backend", "bound">>,
             !.skyflow = skyflowInstance,
             !.transport = NewTransport(r),
             !.closeListener = TRUE,
             !.asyncStore = [bound |-> TRUE, skyflow |-> skyflowInstance,
                             vaultId |-> validation.config.vaultId,
                             isAnonymousMode |-> checked.useAnonymousMode],
             !.pc = "connecting"]

\* the handler of POST /mcp for request r, up to its first await: it answers
\* 400 or 401, or it builds the Skyflow client and the transport, registers
\* the close listener and enters requestContextStorage.run, where it waits
\* for server.connect.  sdkAccepts: the Skyflow constructor does not throw.
mcpHandler(req, e, r, sdkAccepts) ==
  LET checked == AfterPlaceholderCheck(req, e)
      req1 == checked.req
      validation == validateVaultConfig(VaultParams(req1, e, checked.useAnonymousMode))
  IN IF ~checked.ok THEN Respond(req, BadRequest, ErrPlaceholders)
     ELSE IF ~validation.isValid THEN Respond(req1, BadRequest, validation.error)
     ELSE IF ~req1.skyflowCredentials.defined
       THEN Respond(req1, Unauthorized, ErrCredentialsRequired)
     ELSE IF ~sdkAccepts
       THEN Respond([req1 EXCEPT !.trail = @ \o <<"vault", "construct">>],
                    Unauthorized, ErrInvalidCredentials)
     ELSE
       LET skyflowInstance ==
             NewSkyflow(r, validation.config.vaultId, validation.config.clusterId,
                        req1.skyflowCredentials)
       IN [req1 EXCEPT
             !.trail = @ \o <<"vault", "construct", "backend", "bound">>,
             !.skyflow = skyflowInstance,
             !.transport = NewTransport(r),
             !.closeListener = TRUE,
             !.asyncStore = [bound |-> TRUE, skyflow |-> skyflowInstance,
                             vaultId |-> validation.config.vaultId,
                             isAnonymousMode |-> checked.useAnonymousMode],
             !.pc = "connecting"]

\* the requests whose handler has entered requestContextStorage.run
Bound(rs) == {q \in DOMAIN rs : rs[q].asyncStore.bound}

\* a context kept in one module-level variable that every run() overwrites
getStore_global(rs, r) ==
  IF Bound(rs) = {}
    THEN NoContext
    ELSE rs[CHOOSE q \in Bound(rs) : \A p \in Bound(rs) : p <= q].asyncStore

\* requestContextStorage.getStore() in a continuation of request r: the
\* store run() was entered with in that request's asynchronous execution
getStore(rs, r) == rs[r].asyncStore

\* what a lookup does: it throws an Error with a message, or it returns a
\* value (value is the set holding it, empty when the lookup threw)
Thrown(message) == [threw |-> TRUE, error |-> message, value |-> {}]
Returned(v) == [threw |-> FALSE, error |-> Undefined, value |-> {v}]

ErrNoSkyflow == <<"No Skyflow instance available in current request context">>
ErrNoVaultId == <<"No vaultId available in current request context">>
ErrNoContext == <<"No request context available">>

\* getCurrentSkyflow() where getStore() returns context
getCurrentSkyflow(context) ==
  IF ~context.bound THEN Thrown(ErrNoSkyflow) ELSE Returned(context.skyflow)

\* a lookup that falls back to the VAULT_ID of the environment
getCurrentVaultId_default(context) ==
  IF ~context.bound THEN Returned(Undefined) ELSE Returned(context.vaultId)

\* getCurrentVaultId() where getStore() returns context
getCurrentVaultId(context) ==
  IF ~context.bound THEN Thrown(ErrNoVaultId) ELSE Returned(context.vaultId)

\* isAnonymousMode() where getStore() returns context
isAnonymousMode(context) ==
  IF ~context.bound THEN Thrown(ErrNoContext) ELSE Returned(context.isAnonymousMode)

\* the lookups a tool makes before it awaits the backend: isAnonymousMode()
\* in every tool, then getCurrentSkyflow(), and getCurrentVaultId() in
\* dehydrate_file; in anonymous mode rehydrate and dehydrate_file return
\* after the first
Tools == {"dehydrate", "rehydrate", "dehydrate_file"}

\* the tool goes on to call the backend
ReachesBackend(tool, context) ==
  context.bound /\ (tool = "dehydrate" \/ ~context.isAnonymousMode)

\* ------------------------------------------------------------------------
\* Exported functions called directly, as the unit tests do
\* ------------------------------------------------------------------------
\* the header value a chain of entries arrives as: the entries joined by ","
RECURSIVE JoinChain(_)
JoinChain(chain) ==
  IF Len(chain) = 0 THEN <<>>
  ELSE IF Len(chain) = 1 THEN chain[1]
  ELSE chain[1] \o <<",">> \o JoinChain(Tail(chain))

\* the entries of the chains: addresses, with the blank a proxy puts after
\* the comma, with blanks around, and the empty entry
ChainEntries == {<<"1">>, <<" ", "2">>, <<" ", "3", " ">>, <<>>}

Chains == UNION {[1..n -> ChainEntries] : n \in 1..MaxChain}

\* the chain of the unit test "multiple IPs"
Str_firstIp == <<"2", "0", "3", ".", "0", ".", "1", "1", "3", ".", "1", "9", "5">>
Str_secondIp == <<"7", "0", ".", "4", "1", ".", "3", ".", "1", "8">>
Str_thirdIp == <<"1", "5", "0", ".", "1", "7", "2", ".", "2", "3", "8", ".", "1", "7", "8">>
ExampleChain == <<Str_firstIp, <<" ">> \o Str_secondIp, <<" ">> \o Str_thirdIp>>

\* req.headers["x-forwarded-for"]: undefined, or the chain it carries
XffInputs ==
  {[chain |-> <<>>, xff |-> Undefined]}
    \cup {[chain |-> c, xff |-> JoinChain(c)] : c \in Chains \cup {ExampleChain}}

\* req.ip and req.socket.remoteAddress
IpValues == {Undefined, <<>>, <<"8">>}
RemoteValues == {Undefined, <<"9">>}

\* the state before a direct call: nothing stored, no request received
ProbeInit ==
  /\ now = 0
  /\ rateLimitStore = EmptyMap
  /\ config = GwConfig
  /\ win = [id \in Identities |-> NoWindow]
  /\ lastCall = NoCall
  /\ env = EnvPlain
  /\ reqs = [r \in Requests |-> NewRequest]
  /\ running = 0
  /\ probe = NoProbe
  /\ twin = NoTwin
  /\ timer = CLEANUP_INTERVAL_MS

\* the variables a direct call of a function leaves alone
state ==
  <<now, rateLimitStore, config, win, lastCall, env, reqs, running, twin, timer>>

\* getClientId(req) is called
CallGetClientId ==
  \E x \in XffInputs, ip \in IpValues, remote \in RemoteValues :
    LET req == [xff |-> x.xff, ip |-> ip, remoteAddress |-> remote] IN
      /\ probe = NoProbe
      /\ probe' = [fn |-> "getClientId", req |-> req, chain |-> x.chain,
                   out |-> getClientId(req)]
      /\ UNCHANGED state

SpecClientId == ProbeInit /\ [][CallGetClientId]_vars

\* what can follow "Bearer ": strings of a base64url character, the dot, the
\* blank and a character outside the base64url class
RemainderChars == {"a", ".", " ", "+"}

Remainders == UNION {[1..n -> RemainderChars] : n \in 0..MaxRemainder}

\* req.headers.authorization: undefined, empty, without the prefix, with
\* the prefix in lower case, or "Bearer " and a remainder
AuthInputs ==
  {[remainder |-> Undefined, header |-> h] :
     h \in {Undefined, <<>>, <<"B", "e", "a", "r", "e", "r">>,
            <<"b", "e", "a", "r", "e", "r", " ", "a">>, <<"a", ".", "a", ".", "a">>}}
    \cup {[remainder |-> rest, header |-> BearerPrefix \o rest] : rest \in Remainders}

\* req.query.apiKey
KeyInputs == {Undefined, <<>>, <<" ">>, <<"q">>, <<" ", "q", " ">>}

\* extractCredentials(authHeader, apiKeyParam) is called
CallExtractCredentials ==
  \E a \in AuthInputs, key \in KeyInputs :
    /\ probe = NoProbe
    /\ probe' = [fn |-> "extractCredentials", authHeader |-> a.header,
                 remainder |-> a.remainder, apiKeyParam |-> key,
                 out |-> extractCredentials(a.header, key)]
    /\ UNCHANGED state

SpecCredentials == ProbeInit /\ [][CallExtractCredentials]_vars

\* the Authorization headers authenticateBearer is called with: none, the
\* bare prefix, a blank remainder, an API key, a JWT, a lower-case prefix
AuthSamples ==
  {Undefined, BearerPrefix, BearerPrefix \o <<" ">>,
   BearerPrefix \o Str_headerKey, BearerPrefix \o Str_jwt,
   <<"b", "e", "a", "r", "e", "r", " ", "a">>}

\* process.env with each ANON_MODE_* variable unset, empty or set
AuthEnvs ==
  {[EnvPlain EXCEPT !.ANON_MODE_API_KEY = k, !.ANON_MODE_VAULT_ID = v,
                    !.ANON_MODE_VAULT_URL = u] :
     k \in {Undefined, <<>>, Str_anonKey},
     v \in {Undefined, <<>>, Str_anonVault},
     u \in {Undefined, <<>>, Str_anonUrl}}

\* authenticateBearer(req, res, next) is called on a new request
CallAuthenticateBearer ==
  \E h \in AuthSamples, key \in KeyInputs, e \in AuthEnvs :
    LET req == [NewRequest EXCEPT !.pc = "auth",
                                  !.inp = Input(h, key, Undefined, Undefined)]
    IN /\ probe = NoProbe
       /\ probe' = [fn |-> "authenticateBearer", authHeader |-> h,
                    apiKeyParam |-> key, env |-> e,
                    out |-> authenticateBearer(req, e)]
       /\ UNCHANGED state

SpecAuth == ProbeInit /\ [][CallAuthenticateBearer]_vars

\* the three ambient lookups
Lookups == {"getCurrentSkyflow", "getCurrentVaultId", "isAnonymousMode"}

Lookup(fn, context) ==
  IF fn = "getCurrentSkyflow" THEN getCurrentSkyflow(context)
  ELSE IF fn = "getCurrentVaultId" THEN getCurrentVaultId(context)
  ELSE isAnonymousMode(context)

\* what requestContextStorage.getStore() can return: undefined, or a
\* context some request was bound with
Contexts ==
  {NoContext} \cup
  {[bound |-> TRUE, skyflow |-> NewSkyflow(r, v, c, cred), vaultId |-> v,
    isAnonymousMode |-> anon] :
     r \in Requests, v \in {Str_vault, Str_anonVault},
     c \in {<<"c", "1">>, <<"c", "0">>},
     cred \in {TokenCredentials(Str_jwt), ApiKeyCredentials(Str_headerKey),
               ApiKeyCredentials(Str_anonKey)},
     anon \in BOOLEAN}

\* a lookup is made where getStore() returns context
CallLookup ==
  \E fn \in Lookups, context \in Contexts :
    /\ probe = NoProbe
    /\ probe' = [fn |-> fn, context |-> context, out |-> Lookup(fn, context)]
    /\ UNCHANGED state

SpecLookup == ProbeInit /\ [][CallLookup]_vars

\* ------------------------------------------------------------------------
\* The tool callbacks called directly
\* ------------------------------------------------------------------------
ErrRehydrateAnonymous ==
  <<"rehydrate is not available in anonymous mode">>
ErrDehydrateFileAnonymous ==
  <<"dehydrate_file is not available in anonymous mode">>

\* what a tool callback does: the calls it makes on the backend client
\* (the operation, the client and the vault id passed to detect()), and
\* either the error it throws or the result it returns
ToolThrew(message, calls) ==
  [backend |-> calls, threw |-> TRUE, isError |-> FALSE,
   anonymousModeRestricted |-> FALSE, anonymousMode |-> FALSE,
   error |-> message]
ToolResult(calls, isError, restricted, anonymousMode, message) ==
  [backend |-> calls, threw |-> FALSE, isError |-> isError,
   anonymousModeRestricted |-> restricted, anonymousMode |-> anonymousMode,
   error |-> message]

BackendCall(op, context, vaultId) ==
  [op |-> op, skyflow |-> context.skyflow, vaultId |-> vaultId]

ErrBackend == <<"SkyflowError">>

\* the dehydrate callback: the token format depends on the mode, the text
\* goes to the backend in both; settles is whether the backend call
\* resolves
dehydrate(context, settles) ==
  LET anonymousMode == isAnonymousMode(context)
      calls == <<BackendCall("deidentifyText", context, Undefined)>>
  IN IF anonymousMode.threw THEN ToolThrew(anonymousMode.error, <<>>)
     ELSE IF ~settles THEN ToolThrew(ErrBackend, calls)
     ELSE ToolResult(calls, FALSE, FALSE, TRUE \in anonymousMode.value,
                     Undefined)

\* a rehydrate callback without the anonymous-mode check
rehydrate_unrestricted(context, settles) ==
  LET calls == <<BackendCall("reidentifyText", context, Undefined)>>
  IN IF ~context.bound THEN ToolThrew(ErrNoContext, <<>>)
     ELSE IF ~settles THEN ToolThrew(ErrBackend, calls)
     ELSE ToolResult(calls, FALSE, FALSE, FALSE, Undefined)

\* the rehydrate callback
rehydrate(context, settles) ==
  LET anonymousMode == isAnonymousMode(context)
      calls == <<BackendCall("reidentifyText", context, Undefined)>>
  IN IF anonymousMode.threw THEN ToolThrew(anonymousMode.error, <<>>)
     ELSE IF TRUE \in anonymousMode.value
       THEN ToolResult(<<>>, TRUE, TRUE, FALSE, ErrRehydrateAnonymous)
     ELSE IF ~settles THEN ToolThrew(ErrBackend, calls)
     ELSE ToolResult(calls, FALSE, FALSE, FALSE, Undefined)

\* the dehydrate_file callback: the anonymous-mode check is outside the
\* try block, the backend call inside it
dehydrate_file(context, settles) ==
  LET anonymousMode == isAnonymousMode(context)
      calls == <<BackendCall("deidentifyFile", context, context.vaultId)>>
  IN IF anonymousMode.threw THEN ToolThrew(anonymousMode.error, <<>>)
     ELSE IF TRUE \in anonymousMode.value
       THEN ToolResult(<<>>, TRUE, TRUE, FALSE, ErrDehydrateFileAnonymous)
     ELSE IF ~settles THEN ToolResult(calls, TRUE, FALSE, FALSE, ErrBackend)
     ELSE ToolResult(calls, FALSE, FALSE, FALSE, Undefined)

ToolCallback(tool, context, settles) ==
  IF tool = "dehydrate" THEN dehydrate(context, settles)
  ELSE IF tool = "rehydrate" THEN rehydrate(context, settles)
  ELSE dehydrate_file(context, settles)

\* a tool callback runs where getStore() returns context
CallToolCallback ==
  \E tool \in Tools, context \in Contexts, settles \in BOOLEAN :
    /\ probe = NoProbe
    /\ probe' = [fn |-> "tool", tool |-> tool, context |-> context,
                 settles |-> settles,
                 out |-> ToolCallback(tool, context, settles)]
    /\ UNCHANGED state

SpecTools == ProbeInit /\ [][CallToolCallback]_vars

\* the dot-delimited segments the URLs are made of: a cluster name, the
\* literal vault, a segment that only starts with vault, the empty segment
\* and a domain
Str_cluster == <<"c", "1">>
Str_vaultSegment == <<"v", "a", "u", "l", "t">>
UrlSegments ==
  {Str_cluster, Str_vaultSegment, Str_vaultSegment \o <<"x">>, <<>>,
   <<"c", "o", "m">>}

\* what a URL starts with: nothing, a scheme the pattern names, another one
UrlSchemes == {<<>>, HttpsPrefix, HttpPrefix, <<"f", "t", "p", ":", "/", "/">>}

\* what follows the host: nothing, a path, a path that names a vault
UrlPaths ==
  {<<>>, <<"/", "v", "1">>, <<"/">> \o Str_cluster \o DotVault}

\* the segments joined by "."
RECURSIVE JoinDots(_)
JoinDots(segments) ==
  IF Len(segments) = 0 THEN <<>>
  ELSE IF Len(segments) = 1 THEN segments[1]
  ELSE segments[1] \o <<".">> \o JoinDots(Tail(segments))

\* a URL with the parts it was written from
Url(scheme, segments, path) ==
  [scheme |-> scheme, segments |-> segments, path |-> path,
   text |-> scheme \o JoinDots(segments) \o path]

Hosts(n) == UNION {[1..m -> UrlSegments] : m \in 1..n}

\* the URLs of the unit tests of extractClusterId
Str_skyflowapis == <<"s", "k", "y", "f", "l", "o", "w", "a", "p", "i", "s">>
Str_example == <<"e", "x", "a", "m", "p", "l", "e">>
Str_abc == <<"a", "b", "c">>
Str_com == <<"c", "o", "m">>
ExampleUrls ==
  {Url(HttpsPrefix, <<Str_abc, Str_vaultSegment, Str_skyflowapis, Str_com>>, <<>>),
   Url(<<>>, <<Str_abc, Str_vaultSegment, Str_skyflowapis, Str_com>>, <<>>),
   Url(HttpsPrefix, <<Str_abc, Str_vaultSegment, Str_skyflowapis, Str_com>>,
       <<"/", "v", "1">>),
   Url(HttpsPrefix, <<Str_example, Str_com>>, <<>>),
   Url(<<>>, <<Str_example, Str_com>>, <<>>),
   Url(<<>>, <<<<"n", "o", "t", "-", "a", "-", "u", "r", "l">>>>, <<>>),
   Url(<<>>, <<<<>>>>, <<>>)}

Urls(n) ==
  {Url(s, h, p) : s \in UrlSchemes, h \in Hosts(n), p \in UrlPaths}
    \cup ExampleUrls

\* extractClusterId(vaultUrl) is called
CallExtractClusterId ==
  \E u \in Urls(MaxSegments) :
    /\ probe = NoProbe
    /\ probe' = [fn |-> "extractClusterId", url |-> u,
                 out |-> extractClusterId(u.text)]
    /\ UNCHANGED state

\* the characters placeholders are written with
PlaceholderChars == {"$", "{", "}", "%", "a", "1"}

\* the values of the unit tests of looksLikePlaceholder
ExampleValues ==
  {Undefined,
   <<"$", "{", "F", "O", "O", "_", "B", "A", "R", "}">>,
   <<"$", "_", "a">>,
   <<"{", "{", "v", "_", "i", "d", "}", "}">>,
   <<"%", "V", "%">>,
   <<"{", "{", "a", "}", "}">>,
   <<"$", "{", "a", "}", "1">>,
   Str_url,
   <<"x", " ", "$", "{", "A", "}">>,
   <<"$", "{", "A", "}", " ", "x">>}

PlaceholderInputs ==
  UNION {[1..n -> PlaceholderChars] : n \in 0..MaxPlaceholder} \cup ExampleValues

\* looksLikePlaceholder(value) is called
CallLooksLikePlaceholder ==
  \E v \in PlaceholderInputs :
    /\ probe = NoProbe
    /\ probe' = [fn |-> "looksLikePlaceholder", value |-> v,
                 out |-> looksLikePlaceholder(v)]
    /\ UNCHANGED state

\* params.vaultId, and params.accountId and params.workspaceId
VaultIdInputs == {Undefined, <<>>, Str_vault}
OptionalInputs == {Undefined, <<"i", "d">>}

\* validateVaultConfig(params) is called
CallValidateVaultConfig ==
  \E id \in VaultIdInputs, u \in Urls(2) \cup {Url(Undefined, <<>>, <<>>)},
     account \in OptionalInputs, workspace \in OptionalInputs :
    LET params == [vaultId |-> id,
                   vaultUrl |-> IF u.scheme = Undefined THEN Undefined ELSE u.text,
                   accountId |-> account, workspaceId |-> workspace]
    IN /\ probe = NoProbe
       /\ probe' = [fn |-> "validateVaultConfig", params |-> params,
                    out |-> validateVaultConfig(params)]
       /\ UNCHANGED state

VaultNext ==
  \/ CallExtractClusterId
  \/ CallLooksLikePlaceholder
  \/ CallValidateVaultConfig

SpecVaultConfig == ProbeInit /\ [][VaultNext]_vars

\* ------------------------------------------------------------------------
\* One request through the middleware chain of POST /mcp
\* ------------------------------------------------------------------------
\* process.env of a deployment: each ANON_MODE_* variable unset or set, the
\* anonymous URL well formed or not, the VAULT_ID and VAULT_URL fallbacks
\* unset or set
Str_envVault == <<"v", "2">>
Str_envUrl == <<"c", "2">> \o DotVault
HandlerEnvs ==
  {[EnvPlain EXCEPT !.ANON_MODE_API_KEY = k, !.ANON_MODE_VAULT_ID = v,
                    !.ANON_MODE_VAULT_URL = u, !.VAULT_ID = f[1],
                    !.VAULT_URL = f[2]] :
     k \in {Undefined, Str_anonKey},
     v \in {Undefined, Str_anonVault},
     u \in {Undefined, Str_anonUrl, Str_badUrl},
     f \in {<<Undefined, Undefined>>, <<Str_envVault, Str_envUrl>>}}

\* the requests: with and without credentials, the vault id and the vault
\* URL each absent, real or an un-rendered placeholder
HandlerInputs ==
  {[Input(auth, key, vid, vurl) EXCEPT !.accountId = account,
                                       !.workspaceId = workspace] :
     auth \in {Undefined, BearerPrefix \o Str_jwt, BearerPrefix \o Str_headerKey},
     key \in {Undefined, Str_queryKey},
     vid \in {Undefined, Str_vault, Str_phVault},
     vurl \in {Undefined, Str_url, Str_badUrl, Str_phUrl},
     account \in OptionalInputs,
     workspace \in {Undefined}}
  \cup
  \* a client that presents the key and the vault the operator has
  \* configured for anonymous mode as its own
  {Input(BearerPrefix \o Str_anonKey, Undefined, vid, Str_anonUrl) :
     vid \in {Str_vault, Str_anonVault}}

\* app.post("/mcp", authenticateBearer, anonymousRateLimiter, handler) for
\* one request that arrives alone at an empty store: the request after the
\* credential resolution, after the limiter and after the handler ran up to
\* its first await, with the arguments and the result of the validation
Pipeline(inp, e, sdkAccepts) ==
  LET arrived == [NewRequest EXCEPT !.pc = "auth", !.inp = inp]
      resolved == authenticateBearer(arrived, e)
      out == anonymousRateLimiter(EmptyMap, 0, GwConfig,
               LimiterReq(inp, resolved.isAnonymousMode))
      limited == [resolved EXCEPT
                    !.headers = out.headers,
                    !.status = out.status,
                    !.counted = Gated(resolved),
                    !.trail = IF out.next THEN Append(@, "limiter") ELSE @,
                    !.pc = IF out.next THEN "handler" ELSE "rejected"]
      checked == AfterPlaceholderCheck(limited, e)
      params == VaultParams(checked.req, e, checked.useAnonymousMode)
      handled == resolved.pc = "limiter" /\ limited.pc = "handler"
  IN [resolved |-> resolved,
      handled |-> handled,
      validated |-> handled /\ checked.ok,
      params |-> params,
      validation |-> validateVaultConfig(params),
      out |-> IF resolved.pc # "limiter" THEN resolved
              ELSE IF limited.pc # "handler" THEN limited
              ELSE mcpHandler(limited, e, 1, sdkAccepts)]

\* a request is served
CallPipeline ==
  \E inp \in HandlerInputs, e \in HandlerEnvs, sdkAccepts \in BOOLEAN :
    /\ probe = NoProbe
    /\ probe' = [fn |-> "pipeline", inp |-> inp, env |-> e,
                 sdkAccepts |-> sdkAccepts, run |-> Pipeline(inp, e, sdkAccepts)]
    /\ UNCHANGED state

SpecHandler == ProbeInit /\ [][CallPipeline]_vars

\* ------------------------------------------------------------------------
\* The configuration of the limiter (getAnonymousRateLimitConfig)
\* ------------------------------------------------------------------------
Digits == <<"0", "1", "2", "3", "4", "5", "6", "7", "8", "9">>

DigitValue(c) == (CHOOSE i \in 1..Len(Digits) : Digits[i] = c) - 1

\* the longest prefix of s made of decimal digits
RECURSIVE DigitPrefix(_)
DigitPrefix(s) ==
  IF Len(s) = 0 \/ Head(s) \notin DigitChars THEN <<>>
  ELSE <<Head(s)>> \o DigitPrefix(Tail(s))

\* the number a string of decimal digits denotes
RECURSIVE DecimalValue(_)
DecimalValue(ds) ==
  IF Len(ds) = 0 THEN 0
  ELSE 10 * DecimalValue(SubSeq(ds, 1, Len(ds) - 1)) + DigitValue(ds[Len(ds)])

NaN == [nan |-> TRUE, value |-> 0]

\* parseInt(s, 10): leading white space is skipped, a sign is read, then
\* the longest run of digits; what follows the digits is ignored, and the
\* result is NaN when there is no digit
parseInt(s) ==
  LET t == TrimStart(s)
      signed == Len(t) > 0 /\ Head(t) \in {"+", "-"}
      body == IF signed THEN Tail(t) ELSE t
      ds == DigitPrefix(body)
  IN IF Len(ds) = 0 THEN NaN
     ELSE [nan |-> FALSE,
           value |-> IF signed /\ Head(t) = "-" THEN 0 - DecimalValue(ds)
                     ELSE DecimalValue(ds)]

Str_defaultRequests == <<"1", "0">>
Str_defaultWindowMs == <<"6", "0", "0", "0", "0">>
ErrInvalidRequests ==
  <<"Invalid ANON_MODE_RATE_LIMIT_REQUESTS: must be a positive integer">>
ErrInvalidWindowMs ==
  <<"Invalid ANON_MODE_RATE_LIMIT_WINDOW_MS: must be a positive integer">>

\* getAnonymousRateLimitConfig() under the environment e
getAnonymousRateLimitConfig(e) ==
  LET maxRequests == parseInt(OrElse(e.ANON_MODE_RATE_LIMIT_REQUESTS, Str_defaultRequests))
      windowMs == parseInt(OrElse(e.ANON_MODE_RATE_LIMIT_WINDOW_MS, Str_defaultWindowMs))
  IN IF maxRequests.nan \/ maxRequests.value <= 0 THEN Thrown(ErrInvalidRequests)
     ELSE IF windowMs.nan \/ windowMs.value <= 0 THEN Thrown(ErrInvalidWindowMs)
     ELSE Returned([maxRequests |-> maxRequests.value, windowMs |-> windowMs.value])

\* what an operator can write in one of the two variables
EnvChars == {"0", "1", "2", "-", " ", "a", "."}
EnvTexts == UNION {[1..n -> EnvChars] : n \in 0..MaxEnvLen}

\* the values the other variable has meanwhile
EnvSamples == {Undefined, <<"2", "0">>, <<"0">>, <<"a">>}

RateLimitEnvs ==
  {[ANON_MODE_RATE_LIMIT_REQUESTS |-> a, ANON_MODE_RATE_LIMIT_WINDOW_MS |-> b] :
     a \in EnvTexts, b \in EnvSamples}
    \cup
  {[ANON_MODE_RATE_LIMIT_REQUESTS |-> a, ANON_MODE_RATE_LIMIT_WINDOW_MS |-> b] :
     a \in EnvSamples, b \in EnvTexts}

\* the server module is loaded and reads its configuration
CallGetAnonymousRateLimitConfig ==
  \E e \in RateLimitEnvs :
    /\ probe = NoProbe
    /\ probe' = [fn |-> "getAnonymousRateLimitConfig", env |-> e,
                 out |-> getAnonymousRateLimitConfig(e)]
    /\ UNCHANGED state

SpecConfig == ProbeInit /\ [][CallGetAnonymousRateLimitConfig]_vars

\* ------------------------------------------------------------------------
\* The limiter called directly, as the unit tests do
\* ------------------------------------------------------------------------
LimiterInit ==
  /\ now = 0
  /\ rateLimitStore = EmptyMap
  /\ config \in Configs
  /\ win = [id \in Identities |-> NoWindow]
  /\ lastCall = NoCall
  /\ env = EnvPlain
  /\ reqs = [r \in Requests |-> NewRequest]
  /\ running = 0
  /\ probe = NoProbe
  /\ twin = NoTwin
  /\ timer = CLEANUP_INTERVAL_MS

\* Date.now() moves on, up to the bound; the clock is read once per
\* middleware call, so it is advanced between calls only
TickTo(maxTicks) ==
  /\ running = 0
  /\ now + TickMs <= maxTicks * TickMs
  /\ now' = now + TickMs
  /\ UNCHANGED <<rateLimitStore, config, win, lastCall, env, reqs, running>>
  /\ UNCHANGED aux

Tick == TickTo(MaxTicks)

\* the setInterval callback runs (a timer callback runs only when no other
\* code is on the stack)
Sweep ==
  /\ running = 0
  /\ rateLimitStore' = cleanupExpiredEntries(rateLimitStore, now)
  /\ UNCHANGED <<now, config, win, lastCall, env, reqs, running>>
  /\ UNCHANGED aux

\* the middleware is called on a request from address a
Call(a, anon) ==
  LET req == LimiterReq(a, anon)
      id == getClientId(req)
      out == anonymousRateLimiter(rateLimitStore, now, config, req)
  IN /\ anon => WindowAt(win[id], now, config).k < MaxCalls
     /\ rateLimitStore' = out.store
     /\ win' = IF anon
                 THEN [win EXCEPT ![id] = Counted(win[id], now, config, out)]
                 ELSE win
     /\ lastCall' = [made |-> TRUE, id |-> id, anon |-> anon, at |-> now,
                     before |-> EntryOf(rateLimitStore, KeyOf(id)),
                     next |-> out.next, status |-> out.status,
                     headers |-> out.headers, body |-> out.body]
     /\ UNCHANGED <<now, config, env, reqs, running>>
     /\ UNCHANGED aux

AnonymousCall == \E a \in Addrs : Call(a, TRUE)
AuthenticatedCall == \E a \in Addrs : Call(a, FALSE)

LimiterNext == Tick \/ Sweep \/ AnonymousCall \/ AuthenticatedCall

SpecLimiter == LimiterInit /\ [][LimiterNext]_vars

\* ------------------------------------------------------------------------
\* The limiter with a clock that keeps advancing
\* ------------------------------------------------------------------------
LockoutNext == Tick \/ Sweep \/ AnonymousCall

\* the clock keeps advancing as far as the model lets it; the clients
\* send requests when they like
SpecLockout ==
  /\ LimiterInit
  /\ [][LockoutNext]_vars
  /\ WF_vars(Tick)

\* ------------------------------------------------------------------------
\* The limiter under its cleanup interval
\* ------------------------------------------------------------------------
\* the clock advances in steps that divide the cleanup interval
SweepStepMs == CLEANUP_INTERVAL_MS \div StepsPerInterval

\* the clock runs through SweepRounds cleanup intervals
SweepHorizon == SweepRounds * CLEANUP_INTERVAL_MS

\* windows of whole clock steps, the default of one minute among them
SweepConfigs ==
  [maxRequests : 1..MaxMaxRequests,
   windowMs : {SweepStepMs * w : w \in 1..MaxWindowTicks}]

\* the module is loaded at time 0: setInterval arms the first callback
SweepInit ==
  /\ now = 0
  /\ rateLimitStore = EmptyMap
  /\ config \in SweepConfigs
  /\ win = [id \in Identities |-> NoWindow]
  /\ lastCall = NoCall
  /\ env = EnvPlain
  /\ reqs = [r \in Requests |-> NewRequest]
  /\ running = 0
  /\ probe = NoProbe
  /\ twin = NoTwin
  /\ timer = CLEANUP_INTERVAL_MS

\* Date.now() moves on; a callback that is due runs at the clock value it
\* is due at, so the clock does not pass a due callback
SweepTick ==
  /\ now < timer
  /\ now + SweepStepMs <= SweepHorizon
  /\ now' = now + SweepStepMs
  /\ UNCHANGED <<rateLimitStore, config, win, lastCall, env, reqs, running,
                 probe, twin, timer>>

\* the interval's callback: cleanupExpiredEntries, and the timer is armed
\* again one interval on
TimedSweep ==
  /\ now >= timer
  /\ rateLimitStore' = cleanupExpiredEntries(rateLimitStore, now)
  /\ timer' = now + CLEANUP_INTERVAL_MS
  /\ UNCHANGED <<now, config, win, lastCall, env, reqs, running, probe, twin>>

\* an anonymous request from address a passes through the middleware
SweepCall(a) ==
  LET req == LimiterReq(a, TRUE)
      out == anonymousRateLimiter(rateLimitStore, now, config, req)
  IN /\ rateLimitStore' = out.store
     /\ UNCHANGED <<now, config, win, lastCall, env, reqs, running,
                    probe, twin, timer>>

SweepCalls == \E a \in Addrs : SweepCall(a)

SweepNext == SweepTick \/ TimedSweep \/ SweepCalls

\* the clock keeps advancing and the armed callback keeps running
SpecSweep ==
  /\ SweepInit
  /\ [][SweepNext]_vars
  /\ WF_vars(SweepTick)
  /\ WF_vars(TimedSweep)

\* ------------------------------------------------------------------------
\* Two runs of the limiter on the same requests, which differ in the
\* client-supplied entries of X-Forwarded-For only
\* ------------------------------------------------------------------------
\* what a client can put in front of the entry the trusted proxy appends:
\* any address, also the address of another client
SpoofEntries == {<<"9">>, <<"1">>}

SpoofPrefixes == UNION {[1..n -> SpoofEntries] : n \in 0..MaxSpoof}

\* the entry the trusted proxy appends: the address that connected to it
ProxyEntries == {<<"2">>, <<" ", "1">>}

\* the anonymous request behind the proxy with the given entries
ForwardedReq(prefix, last) ==
  LimiterReq([xff |-> JoinChain(Append(prefix, last)), ip |-> <<"8">>,
              remoteAddress |-> <<"8">>], TRUE)

\* both runs receive a request of the client at address Trim(last); the
\* first run with the entries first in front, the second with second
TwinCall(first, second, last) ==
  LET id == Trim(last)
      req1 == ForwardedReq(first, last)
      req2 == ForwardedReq(second, last)
      out1 == anonymousRateLimiter(rateLimitStore, now, config, req1)
      out2 == anonymousRateLimiter(twin.store, now, config, req2)
  IN /\ WindowAt(win[id], now, config).k < MaxCalls
     /\ rateLimitStore' = out1.store
     /\ twin' = [store |-> out2.store, made |-> TRUE,
                 key |-> RateLimitKey(req2), next |-> out2.next,
                 firstKey |-> RateLimitKey(req1), firstNext |-> out1.next]
     /\ win' = [win EXCEPT ![id] = Counted(win[id], now, config, out2)]
     /\ UNCHANGED <<now, config, lastCall, env, reqs, running, probe, timer>>

TwinCalls ==
  \E first \in SpoofPrefixes, second \in SpoofPrefixes, last \in ProxyEntries :
    TwinCall(first, second, last)

\* the sweep runs in both runs
TwinSweep ==
  /\ rateLimitStore' = cleanupExpiredEntries(rateLimitStore, now)
  /\ twin' = [twin EXCEPT !.store = cleanupExpiredEntries(@, now)]
  /\ UNCHANGED <<now, config, win, lastCall, env, reqs, running, probe, timer>>

TwinNext == Tick \/ TwinSweep \/ TwinCalls

\* the clients behind the proxy
TwinIdentities == {Trim(last) : last \in ProxyEntries}

\* the configurations of the two runs: every limit, the shortest window
TwinConfigs == {c \in Configs : c.windowMs = TickMs}

TwinInit ==
  /\ now = 0
  /\ rateLimitStore = EmptyMap
  /\ config \in TwinConfigs
  /\ win = [id \in TwinIdentities |-> NoWindow]
  /\ lastCall = NoCall
  /\ env = EnvPlain
  /\ reqs = [r \in Requests |-> NewRequest]
  /\ running = 0
  /\ probe = NoProbe
  /\ twin = NoTwin
  /\ timer = CLEANUP_INTERVAL_MS

SpecTwin == TwinInit /\ [][TwinNext]_vars

\* ------------------------------------------------------------------------
\* The limiter with and without its sweep
\* ------------------------------------------------------------------------
\* the same anonymous request goes through the middleware in two runs:
\* rateLimitStore is the store of the run whose sweep runs at any time
\* (Sweep), twin.store the store of a run that is never swept
ShadowCall(a) ==
  LET req == LimiterReq(a, TRUE)
      id == getClientId(req)
      key == RateLimitKey(req)
      swept == anonymousRateLimiter(rateLimitStore, now, config, req)
      unswept == anonymousRateLimiter(twin.store, now, config, req)
  IN /\ WindowAt(win[id], now, config).k < MaxCalls
     /\ rateLimitStore' = swept.store
     /\ twin' = [store |-> unswept.store, made |-> TRUE, key |-> key,
                 next |-> unswept.next, firstKey |-> key,
                 firstNext |-> swept.next,
                 status |-> unswept.status, firstStatus |-> swept.status,
                 headers |-> unswept.headers, firstHeaders |-> swept.headers,
                 body |-> unswept.body, firstBody |-> swept.body,
                 sweptAway |-> key \in DOMAIN twin.store \ DOMAIN rateLimitStore]
     /\ win' = [win EXCEPT ![id] = Counted(win[id], now, config, swept)]
     /\ UNCHANGED <<now, config, lastCall, env, reqs, running, probe, timer>>

ShadowCalls == \E a \in Addrs : ShadowCall(a)

ShadowNext == Tick \/ Sweep \/ ShadowCalls

SpecShadow == LimiterInit /\ [][ShadowNext]_vars

\* ------------------------------------------------------------------------
\* The gateway serving requests
\* ------------------------------------------------------------------------
Init ==
  /\ now = 0
  /\ rateLimitStore = EmptyMap
  /\ config = GwConfig
  /\ win = [id \in Identities |-> NoWindow]
  /\ lastCall = NoCall
  /\ env \in EnvChoices
  /\ reqs = [r \in Requests |-> NewRequest]
  /\ running = 0
  /\ probe = NoProbe
  /\ twin = NoTwin
  /\ timer = CLEANUP_INTERVAL_MS

GwTick == TickTo(GwMaxTicks)

\* a suspension point between the check and the increment of the limiter
Yields_inLimiter(pc) ==
  pc \in {"rejected", "increment", "connecting", "backend", "finished"}

\* the positions at which the code of a request is off the stack: after its
\* response was sent by a middleware or the handler, and at the awaits of
\* the handler (server.connect, transport.handleRequest) and of the tools
\* (the backend call).  The middleware chain has none.
Yields(pc) == pc \in {"rejected", "connecting", "backend", "finished"}

\* request r can take its next step: it holds the thread, or it is
\* suspended and the event loop is idle
CanRun(r) == IF Yields(reqs[r].pc) THEN running = 0 ELSE running = r

\* the thread after a step that left the request at position pc
Thread(r, pc) == IF Yields(pc) THEN 0 ELSE r

\* request r arrives with input inp and Express starts its middleware chain;
\* requests are numbered in the order of their arrival
Arrive(r, inp) ==
  /\ running = 0
  /\ reqs[r].pc = "new"
  /\ \A q \in Requests : q < r => reqs[q].pc # "new"
  /\ reqs' = [reqs EXCEPT ![r] = [@ EXCEPT !.pc = "auth", !.inp = inp]]
  /\ running' = Thread(r, "auth")
  /\ UNCHANGED <<now, rateLimitStore, config, win, lastCall, env>>
  /\ UNCHANGED aux

\* the first middleware of the chain
Authenticate(r) ==
  /\ reqs[r].pc = "auth"
  /\ CanRun(r)
  /\ LET req == authenticateBearer(reqs[r], env) IN
       /\ reqs' = [reqs EXCEPT ![r] = req]
       /\ running' = Thread(r, req.pc)
  /\ UNCHANGED <<now, rateLimitStore, config, win, lastCall, env>>
  /\ UNCHANGED aux

\* the second middleware of the chain, anonymousRateLimiter on request r,
\* up to its limit check
RateLimitCheck(r) ==
  /\ reqs[r].pc = "limiter"
  /\ CanRun(r)
  /\ LET req == reqs[r]
         checked == limiterCheck(rateLimitStore, now, config,
                      LimiterReq(req.inp, req.isAnonymousMode))
         out == checked.out
         pc == IF checked.pending THEN "increment"
               ELSE IF out.next THEN "handler" ELSE "rejected"
     IN /\ rateLimitStore' = out.store
        /\ reqs' = [reqs EXCEPT ![r] =
             [req EXCEPT
                !.held = checked.held,
                !.headers = out.headers,
                !.status = out.status,
                !.trail = IF out.next THEN Append(@, "limiter") ELSE @,
                !.pc = pc]]
        /\ running' = Thread(r, pc)
  /\ UNCHANGED <<now, config, win, lastCall, env>>
  /\ UNCHANGED aux

\* anonymousRateLimiter on request r from its increment on
RateLimitCount(r) ==
  /\ reqs[r].pc = "increment"
  /\ CanRun(r)
  /\ LET req == reqs[r]
         out == limiterCount(rateLimitStore, config,
                  LimiterReq(req.inp, req.isAnonymousMode), req.held)
     IN /\ rateLimitStore' = out.store
        /\ reqs' = [reqs EXCEPT ![r] =
             [req EXCEPT
                !.headers = out.headers,
                !.counted = TRUE,
                !.trail = Append(@, "limiter"),
                !.pc = "handler"]]
        /\ running' = Thread(r, "handler")
  /\ UNCHANGED <<now, config, win, lastCall, env>>
  /\ UNCHANGED aux

\* the handler of POST /mcp runs up to its first await
Handle(r) ==
  /\ reqs[r].pc = "handler"
  /\ CanRun(r)
  /\ \E sdkAccepts \in BOOLEAN :
       LET req == mcpHandler(reqs[r], env, r, sdkAccepts) IN
         /\ reqs' = [reqs EXCEPT ![r] = req]
         /\ running' = Thread(r, req.pc)
  /\ UNCHANGED <<now, rateLimitStore, config, win, lastCall, env>>
  /\ UNCHANGED aux

\* server.connect has resolved: transport.handleRequest dispatches the
\* tools/call of the request body to the tool, which looks the context up and
\* either awaits the backend or returns at once
CallTool(r, tool) ==
  /\ reqs[r].pc = "connecting"
  /\ CanRun(r)
  /\ LET context == getStore(reqs, r)
         pc == IF ReachesBackend(tool, context) THEN "backend" ELSE "finished"
     IN /\ reqs' = [reqs EXCEPT ![r] =
             [@ EXCEPT
                !.seen = @ \cup {context},
                !.peers = Bound(reqs) \ {r},
                !.pc = pc]]
        /\ running' = Thread(r, pc)
  /\ UNCHANGED <<now, rateLimitStore, config, win, lastCall, env>>
  /\ UNCHANGED aux

\* the backend call of the tool settles: the tool returns its result (or
\* its error result) and the transport writes the response
BackendReturns(r) ==
  /\ reqs[r].pc = "backend"
  /\ CanRun(r)
  /\ reqs' = [reqs EXCEPT ![r] = [@ EXCEPT !.pc = "finished"]]
  /\ running' = Thread(r, "finished")
  /\ UNCHANGED <<now, rateLimitStore, config, win, lastCall, env>>
  /\ UNCHANGED aux

\* server.connect or transport.handleRequest rejects: the promise of the
\* handler rejects and Express ends the response with its error handler
HandlerThrows(r) ==
  /\ reqs[r].pc \in {"connecting", "backend"}
  /\ CanRun(r)
  /\ reqs' = [reqs EXCEPT ![r] = [@ EXCEPT !.pc = "finished", !.threw = TRUE]]
  /\ running' = Thread(r, "finished")
  /\ UNCHANGED <<now, rateLimitStore, config, win, lastCall, env>>
  /\ UNCHANGED aux

\* a close listener that does not release the transport
onClose_leak(req) == req

\* the close listener of the handler: transport.close()
onClose(req) ==
  IF req.closeListener
    THEN [req EXCEPT !.transport.closeCalls = @ + 1]
    ELSE req

\* the response stream of a request that reached the transport closes,
\* once: after the response was written, or at any earlier point when the
\* client disconnects
Close(r) ==
  /\ running = 0
  /\ reqs[r].pc \in {"connecting", "backend", "finished"}
  /\ ~reqs[r].resClosed
  /\ reqs' = [reqs EXCEPT ![r] = [onClose(@) EXCEPT !.resClosed = TRUE]]
  /\ UNCHANGED <<now, rateLimitStore, config, win, lastCall, env, running>>
  /\ UNCHANGED aux

Arrives == \E r \in Requests, inp \in Inputs : Arrive(r, inp)
Authenticates == \E r \in Requests : Authenticate(r)
RateLimitChecks == \E r \in Requests : RateLimitCheck(r)
RateLimitCounts == \E r \in Requests : RateLimitCount(r)
Handles == \E r \in Requests : Handle(r)
CallsTool == \E r \in Requests, tool \in Tools : CallTool(r, tool)
BackendSettles == \E r \in Requests : BackendReturns(r)
Throws == \E r \in Requests : HandlerThrows(r)
Closes == \E r \in Requests : Close(r)

Next ==
  \/ GwTick
  \/ Sweep
  \/ Arrives
  \/ Authenticates
  \/ RateLimitChecks
  \/ RateLimitCounts
  \/ Handles
  \/ CallsTool
  \/ BackendSettles
  \/ Throws
  \/ Closes

Spec == Init /\ [][Next]_vars

\* ------------------------------------------------------------------------
\* Properties of the rate limiter (SpecLimiter)
\* ------------------------------------------------------------------------
LimiterTypeOK ==
  /\ now \in 0..(MaxTicks * TickMs)
  /\ config \in Configs
  /\ \A k \in DOMAIN rateLimitStore :
       /\ rateLimitStore[k].count \in Nat
       /\ rateLimitStore[k].resetTime \in Nat
  /\ lastCall.made \in BOOLEAN

\* C1: every stored count lies in 0..maxRequests, and in every fixed window
\* of every client at most maxRequests anonymous requests were admitted
C1_CountWithinLimit ==
  /\ \A k \in DOMAIN rateLimitStore :
       /\ 0 <= rateLimitStore[k].count
       /\ rateLimitStore[k].count <= config.maxRequests
  /\ \A id \in Identities : win[id].admitted <= config.maxRequests

\* a client whose entry is full was just turned away
C1_Witness ==
  /\ lastCall.made /\ lastCall.anon /\ ~lastCall.next
  /\ KeyOf(lastCall.id) \in DOMAIN rateLimitStore
  /\ rateLimitStore[KeyOf(lastCall.id)].count = config.maxRequests
  /\ win[lastCall.id].admitted = config.maxRequests
  /\ win[lastCall.id].k > config.maxRequests

\* C6: the k-th anonymous request of a client inside one window is allowed
\* iff k <= maxRequests; allowed, it reports X-RateLimit-Remaining =
\* maxRequests - k; rejected, it gets 429 and X-RateLimit-Remaining = 0
C6_KthRequest ==
  (lastCall.made /\ lastCall.anon) =>
    LET k == win[lastCall.id].k IN
      /\ lastCall.next <=> k <= config.maxRequests
      /\ HasHeader(lastCall.headers, "X-RateLimit-Remaining")
      /\ lastCall.next =>
           /\ lastCall.status = {}
           /\ HeaderValue(lastCall.headers, "X-RateLimit-Remaining")
                = config.maxRequests - k
      /\ ~lastCall.next =>
           /\ lastCall.status = {TooManyRequests}
           /\ HeaderValue(lastCall.headers, "X-RateLimit-Remaining") = 0

\* with maxRequests = 2 the third request of a window was rejected
C6_Witness ==
  /\ lastCall.made /\ lastCall.anon /\ ~lastCall.next
  /\ config.maxRequests = 2
  /\ win[lastCall.id].k = 3

\* a window of the client is open and more than windowMs has passed since
\* its first request
WindowOver(id) == win[id].open /\ now > win[id].start + config.windowMs

\* a window of the client is open and windowMs or more has passed
WindowElapsed(id) == win[id].open /\ now >= win[id].start + config.windowMs

\* what C7 says of an anonymous call of address a
ResetsOn(a) ==
  LET key == KeyOf(getClientId(a)) IN
    /\ lastCall'.next
    /\ key \in DOMAIN rateLimitStore'
    /\ rateLimitStore'[key] =
         [count |-> 1, resetTime |-> now + config.windowMs]
    /\ HeaderValue(lastCall'.headers, "X-RateLimit-Remaining")
         = config.maxRequests - 1

OnlyKey(store, key) == [x \in DOMAIN store \cap {key} |-> store[x]]

\* C8: an anonymous request of one client leaves the entry of every other
\* client as it was, and its own outcome is the one it would have had with
\* no other client in the store
C8_ClientsIndependent ==
  [][\A a \in Addrs :
       Call(a, TRUE) =>
         LET id == getClientId(a)
             alone == anonymousRateLimiter(OnlyKey(rateLimitStore, KeyOf(id)),
                                           now, config, LimiterReq(a, TRUE))
         IN /\ \A other \in Identities \ {id} :
                 EntryOf(rateLimitStore', KeyOf(other))
                   = EntryOf(rateLimitStore, KeyOf(other))
            /\ DOMAIN rateLimitStore' \subseteq DOMAIN rateLimitStore \cup {KeyOf(id)}
            /\ lastCall'.next = alone.next
            /\ lastCall'.headers = alone.headers
    ]_vars

\* a client was admitted while another client's open window was used up
C8_Witness ==
  /\ lastCall.made /\ lastCall.anon /\ lastCall.next
  /\ \E other \in Identities \ {lastCall.id} :
       /\ KeyOf(other) \in DOMAIN rateLimitStore
       /\ rateLimitStore[KeyOf(other)].count = config.maxRequests
       /\ now <= rateLimitStore[KeyOf(other)].resetTime
       /\ win[other].k > config.maxRequests

\* C9: a request that is not in anonymous mode always passes (next() is
\* called, no 429), sets no rate-limit header and leaves the store as it was
C9_AuthenticatedBypass ==
  [][\A a \in Addrs :
       Call(a, FALSE) =>
         /\ lastCall'.next
         /\ lastCall'.status = {}
         /\ lastCall'.headers = {}
         /\ rateLimitStore' = rateLimitStore
    ]_vars

\* a request that is not anonymous passed while the entry of its address
\* was full and its window still open
C9_Witness ==
  /\ lastCall.made /\ ~lastCall.anon /\ lastCall.next
  /\ lastCall.before.present
  /\ lastCall.before.count = config.maxRequests
  /\ lastCall.at <= lastCall.before.resetTime

\* ------------------------------------------------------------------------
\* Properties of the gateway (Spec)
\* ------------------------------------------------------------------------
\* the rate-limit key of request r
KeyOfRequest(r) == RateLimitKey(LimiterReq(reqs[r].inp, reqs[r].isAnonymousMode))

\* the requests the limiter counted under key k in the window that ends at t
CountedIn(k, t) ==
  {r \in Requests : /\ reqs[r].counted
                    /\ KeyOfRequest(r) = k
                    /\ reqs[r].held.resetTime = t}

\* request r is suspended at an await of its handler or of its tool
Suspended(r) == reqs[r].pc \in {"connecting", "backend"}

\* C2: the lookup, expiry reset, limit check and increment of one request
\* are one uninterruptible step: while a request is between its check and
\* its increment it holds the thread and the entry in the store is still the
\* one it read, so that no other limiter step and no sweep came between; and
\* the requests of one client admitted in one window never exceed
\* maxRequests, so two concurrent requests arriving at count = maxRequests - 1
\* are never both admitted.
C2_CheckThenIncrementAtomic ==
  /\ \A r \in Requests :
       reqs[r].pc = "increment" =>
         /\ running = r
         /\ EntryOf(rateLimitStore, KeyOfRequest(r)) =
              [present |-> TRUE, count |-> reqs[r].held.count,
               resetTime |-> reqs[r].held.resetTime]
  /\ \A r \in Requests :
       Cardinality(CountedIn(KeyOfRequest(r), reqs[r].held.resetTime))
         <= config.maxRequests

\* two requests of one client in one window: the first arrived at
\* count = maxRequests - 1, was admitted and is suspended at an await, the
\* second was refused
C2_Witness ==
  \E a, b \in Requests :
    /\ a # b
    /\ reqs[a].counted /\ Suspended(a)
    /\ reqs[a].held.count = config.maxRequests - 1
    /\ KeyOfRequest(a) = KeyOfRequest(b)
    /\ reqs[b].held.resetTime = reqs[a].held.resetTime
    /\ reqs[b].status = {TooManyRequests}

\* C3: every ambient lookup made while a request is handled returns the
\* context bound for that request (its own Skyflow client, vault id and
\* anonymous flag), never the context bound for another request, whatever
\* other requests were bound in the meantime.
C3_OwnContextOnly ==
  \A r \in Requests :
    /\ reqs[r].asyncStore.bound =>
         /\ reqs[r].asyncStore.skyflow = reqs[r].skyflow
         /\ reqs[r].asyncStore.skyflow.id = r
    /\ \A context \in reqs[r].seen :
         /\ context.bound
         /\ context = reqs[r].asyncStore
         /\ \A q \in Requests \ {r} :
              reqs[q].asyncStore.bound => context # reqs[q].asyncStore

\* two requests each looked its context up while the other one was bound
C3_Witness ==
  \E a, b \in Requests :
    /\ a # b
    /\ reqs[a].seen # {} /\ b \in reqs[a].peers
    /\ reqs[b].seen # {} /\ a \in reqs[b].peers

\* C4: the transport created for a request is closed exactly once, when
\* the response stream closes: not before the stream closes, once after it
\* closed, on normal completion, after an error thrown during handling and
\* after a disconnect at any point of the processing.
C4_ReleasedOnceOnClose ==
  \A r \in Requests :
    /\ reqs[r].transport.id = 0 => reqs[r].transport.closeCalls = 0
    /\ reqs[r].transport.id # 0 =>
         /\ reqs[r].transport.id = r
         /\ reqs[r].transport.closeCalls = IF reqs[r].resClosed THEN 1 ELSE 0

\* the stream of one request closed after its handling threw, the stream of
\* another closed while its tool was waiting for the backend
C4_Witness ==
  \E a, b \in Requests :
    /\ a # b
    /\ reqs[a].threw /\ reqs[a].resClosed
    /\ reqs[a].transport.closeCalls = 1
    /\ reqs[b].pc = "backend" /\ reqs[b].resClosed
    /\ reqs[b].transport.closeCalls = 1

\* the stages a request passed when its context is bound
BoundTrail ==
  <<"credentials", "limiter", "vault", "construct", "backend", "bound">>

\* a request that ends with 400, 401 or 429 has no context bound and no
\* transport, and no Skyflow client either unless the failure is the
\* rejected construction; a context is bound after the stages in order
FailuresBindNothing ==
  \A r \in Requests :
    /\ reqs[r].pc = "rejected" =>
         /\ reqs[r].status \subseteq {Unauthorized, BadRequest, TooManyRequests}
         /\ reqs[r].status # {}
         /\ ~reqs[r].asyncStore.bound
         /\ reqs[r].transport.id = 0
         /\ reqs[r].skyflow.id = 0
    /\ reqs[r].asyncStore.bound => reqs[r].trail = BoundTrail

\* C5: a request that ends with a failure response has no context bound,
\* no transport and (for the first three failures) no Skyflow client, and
\* a context is bound only after credential resolution, rate-limit
\* admission if the request is anonymous, vault validation and backend
\* construction, in that order.
C5_BoundOnlyAfterAdmission ==
  /\ FailuresBindNothing
  /\ \A r \in Requests :
       reqs[r].asyncStore.bound /\ reqs[r].asyncStore.isAnonymousMode =>
         reqs[r].counted

\* C10: every request handled with a bound context whose isAnonymous is
\* true was checked by the limiter under its client key and counted in the
\* current window before the context was bound.
C10_AnonymousIsCounted ==
  \A r \in Requests :
    reqs[r].asyncStore.bound /\ reqs[r].asyncStore.isAnonymousMode =>
      /\ reqs[r].counted
      /\ reqs[r].held.count < config.maxRequests
      /\ HasHeader(reqs[r].headers, "X-RateLimit-Remaining")

\* a request served in anonymous mode that the limiter let by unchecked
AnonymousUncounted ==
  \E r \in Requests :
    /\ reqs[r].asyncStore.bound /\ reqs[r].asyncStore.isAnonymousMode
    /\ ~reqs[r].counted
    /\ reqs[r].headers = {}

\* ------------------------------------------------------------------------
\* Properties of getClientId (SpecClientId)
\* ------------------------------------------------------------------------
\* the header is there and not empty
HasForwarded(req) == req.xff # Undefined /\ req.xff # <<>>

JwtShaped(s) ==
  \E i, j \in 1..Len(s) :
    /\ 1 < i /\ i + 1 < j /\ j < Len(s)
    /\ s[i] = "." /\ s[j] = "."
    /\ \A k \in (1..Len(s)) \ {i, j} : s[k] \in Base64UrlChars

\* the header is "Bearer " and a remainder
HasRemainder == probe.fn = "extractCredentials" /\ probe.remainder # Undefined

\* what the header gives when it gives a credential
FromHeader(rest) ==
  CredentialsResult(TRUE,
    IF JwtShaped(rest) THEN TokenCredentials(rest) ELSE ApiKeyCredentials(rest),
    Undefined)

\* C14 as stated: for "Bearer " + r with r non-empty, a JWT-shaped r gives
\* {token: r} and any other non-empty r gives {apiKey: r}
C14_NonEmptyRemainder ==
  (HasRemainder /\ probe.remainder # <<>>) => probe.out = FromHeader(probe.remainder)

\* C14 as amended: for "Bearer " + r with r holding a character that is
\* not white space, a JWT-shaped r gives {token: r} and any other r gives
\* {apiKey: r}, r as it is (not trimmed); a remainder of white space only
\* gives no credential from the header
C14_NonBlankRemainder ==
  HasRemainder =>
    IF Trim(probe.remainder) # <<>>
      THEN probe.out = FromHeader(probe.remainder)
      ELSE /\ probe.out # FromHeader(probe.remainder)
           /\ probe.out.credentials.apiKey # probe.remainder
           /\ probe.out.credentials.token # probe.remainder

\* a remainder of three base64url parts went out as a bearer token
C14_Witness ==
  /\ HasRemainder
  /\ probe.remainder = <<"a", ".", "a", ".", "a">>
  /\ probe.out.credentials = TokenCredentials(probe.remainder)

\* the header gives a credential: it has the prefix and a remainder that
\* is not blank
HeaderYields == HasRemainder /\ Trim(probe.remainder) # <<>>

\* C15: whenever the header gives a credential, the result is the
\* credential of the header, whatever the apiKey query parameter is
C15_HeaderFirst ==
  HeaderYields =>
    /\ probe.out.isPresent
    /\ probe.out.credentials
         \in {TokenCredentials(probe.remainder), ApiKeyCredentials(probe.remainder)}
    /\ probe.out = extractCredentials(probe.authHeader, Undefined)

\* a header with an API key and a usable query parameter: the header won
C15_Witness ==
  /\ HeaderYields
  /\ probe.apiKeyParam = <<"q">>
  /\ probe.remainder = <<"a", "+">>
  /\ probe.out.credentials = ApiKeyCredentials(<<"a", "+">>)

\* C16: when the header gives no credential (absent, without the prefix
\* "Bearer ", or with an empty or blank remainder), the result is
\* {apiKey: trim(q)} if the query parameter q is there and not empty after
\* trimming, and else the failure with the message that names both inputs
C16_QueryFallback ==
  (probe.fn = "extractCredentials" /\ ~HeaderYields) =>
    LET q == probe.apiKeyParam IN
      IF q # Undefined /\ Trim(q) # <<>>
        THEN probe.out = CredentialsResult(TRUE, ApiKeyCredentials(Trim(q)), Undefined)
        ELSE probe.out = CredentialsResult(FALSE, NoCredentials, ErrMissingCredentials)

\* a header with the prefix in lower case and a query parameter with
\* blanks around: the trimmed query parameter is the API key
C16_Witness ==
  /\ probe.fn = "extractCredentials"
  /\ probe.authHeader = <<"b", "e", "a", "r", "e", "r", " ", "a">>
  /\ probe.apiKeyParam = <<" ", "q", " ">>
  /\ probe.out.credentials = ApiKeyCredentials(<<"q">>)

\* C17: in every result isPresent, a defined credentials object and an
\* undefined error go together, and a credentials object has exactly one of
\* token and apiKey, a non-empty string
C17_ResultWellFormed ==
  probe.fn = "extractCredentials" =>
    LET out == probe.out
        c == out.credentials
    IN /\ out.isPresent \in BOOLEAN
       /\ out.isPresent <=> c.defined
       /\ out.isPresent <=> out.error = Undefined
       /\ ~c.defined => c.token = Undefined /\ c.apiKey = Undefined
       /\ c.defined =>
            /\ (c.token = Undefined) # (c.apiKey = Undefined)
            /\ c.token # <<>> /\ c.apiKey # <<>>
            /\ c.token # Null /\ c.apiKey # Null

\* a header with a blank remainder and a query parameter: one API key
C17_Witness ==
  /\ HasRemainder
  /\ probe.remainder = <<" ">>
  /\ probe.out.isPresent
  /\ probe.out.credentials.apiKey = <<"q">>
  /\ probe.out.credentials.token = Undefined

\* ------------------------------------------------------------------------
\* Properties of authenticateBearer (SpecAuth)
\* ------------------------------------------------------------------------
\* the three ANON_MODE_* variables are set, to something
AllAnonSet(e) ==
  \A v \in {e.ANON_MODE_API_KEY, e.ANON_MODE_VAULT_ID, e.ANON_MODE_VAULT_URL} :
    v # Undefined /\ v # <<>>

\* next() was called and no response was sent
PassedOn(req) == req.pc = "limiter" /\ req.status = {} /\ req.error = Undefined

\* C18: authenticateBearer puts the request in anonymous mode iff
\* resolution fails and the three ANON_MODE_* variables are set; it then
\* attaches the anonymous API key and vault and calls next().  When
\* resolution fails and one of them is not set it answers 401 with the
\* resolver's error and does not call next().  When resolution succeeds it
\* sets isAnonymousMode = false, attaches the client's credentials and no
\* anonVaultConfig, and calls next(), anonymous mode configured or not.
C18_AnonymousIffNoCredentials ==
  probe.fn = "authenticateBearer" =>
    LET result == extractCredentials(probe.authHeader, probe.apiKeyParam)
        e == probe.env
        req == probe.out
    IN /\ req.isAnonymousMode <=> (~result.isPresent /\ AllAnonSet(e))
       /\ (~result.isPresent /\ AllAnonSet(e)) =>
            /\ req.skyflowCredentials = ApiKeyCredentials(e.ANON_MODE_API_KEY)
            /\ req.anonVaultConfig =
                 [defined |-> TRUE, vaultId |-> e.ANON_MODE_VAULT_ID,
                  vaultUrl |-> e.ANON_MODE_VAULT_URL]
            /\ PassedOn(req)
       /\ (~result.isPresent /\ ~AllAnonSet(e)) =>
            /\ req.pc = "rejected"
            /\ req.status = {Unauthorized}
            /\ req.error = result.error
            /\ req.skyflowCredentials = NoCredentials
       /\ result.isPresent =>
            /\ req.skyflowCredentials = result.credentials
            /\ req.anonVaultConfig = NoAnonVaultConfig
            /\ PassedOn(req)

\* a request with an API key in the header, with anonymous mode configured,
\* went on with its own key
C18_Witness ==
  /\ probe.fn = "authenticateBearer"
  /\ AllAnonSet(probe.env)
  /\ probe.authHeader = BearerPrefix \o Str_headerKey
  /\ ~probe.out.isAnonymousMode
  /\ probe.out.skyflowCredentials = ApiKeyCredentials(Str_headerKey)
  /\ PassedOn(probe.out)

\* ------------------------------------------------------------------------
\* Properties of the ambient lookups (SpecLookup)
\* ------------------------------------------------------------------------
\* C19: a lookup made when no context is bound throws an error and
\* returns nothing; made in a bound context it returns the value of that
\* context.
C19_LookupOutsideThrows ==
  probe.fn \in Lookups =>
    IF ~probe.context.bound
      THEN /\ probe.out.threw
           /\ probe.out.value = {}
           /\ probe.out.error \in {ErrNoSkyflow, ErrNoVaultId, ErrNoContext}
      ELSE /\ ~probe.out.threw
           /\ probe.fn = "getCurrentSkyflow" =>
                probe.out.value = {probe.context.skyflow}
           /\ probe.fn = "getCurrentVaultId" =>
                probe.out.value = {probe.context.vaultId}
           /\ probe.fn = "isAnonymousMode" =>
                probe.out.value = {probe.context.isAnonymousMode}

\* getCurrentVaultId was called outside every context and threw
C19_Witness ==
  /\ probe.fn = "getCurrentVaultId"
  /\ ~probe.context.bound
  /\ probe.out.threw
  /\ probe.out.error = ErrNoVaultId

\* ------------------------------------------------------------------------
\* Properties of the gateway (Spec), continued
\* ------------------------------------------------------------------------
\* C20: a request that reaches context binding has a Skyflow client and a
\* transport constructed in its own handler, the client from its own
\* credentials; its context refers to that client; and no two requests
\* hold the same client, the same transport or the same context.
C20_FreshPerRequest ==
  \A r \in Requests :
    reqs[r].asyncStore.bound =>
      /\ reqs[r].skyflow.id = r
      /\ reqs[r].transport.id = r
      /\ reqs[r].skyflow.credentials = reqs[r].skyflowCredentials
      /\ reqs[r].asyncStore.skyflow = reqs[r].skyflow
      /\ \A q \in Requests \ {r} :
           reqs[q].asyncStore.bound =>
             /\ reqs[q].skyflow.id # reqs[r].skyflow.id
             /\ reqs[q].transport.id # reqs[r].transport.id
             /\ reqs[q].asyncStore # reqs[r].asyncStore

\* two requests are in flight at once, both with the same API key
C20_Witness ==
  \E a, b \in Requests :
    /\ a # b
    /\ Suspended(a) /\ ~reqs[a].resClosed
    /\ Suspended(b) /\ ~reqs[b].resClosed
    /\ reqs[a].skyflowCredentials = reqs[b].skyflowCredentials
    /\ reqs[a].skyflow.id # reqs[b].skyflow.id

\* ------------------------------------------------------------------------
\* Vault configuration
\* ------------------------------------------------------------------------
\* a string was supplied and has at least one character
Supplied(v) == v # Undefined /\ v # Null /\ Len(v) > 0

\* C21: validateVaultConfig returns isValid = true iff vaultId is non-empty,
\* vaultUrl is non-empty and the clusterId extraction from vaultUrl succeeds;
\* config is defined iff isValid and error is defined iff not isValid; the
\* three failures carry distinct messages and are checked in the order
\* vaultId, vaultUrl, URL format
C21_ValidIffComplete ==
  probe.fn = "validateVaultConfig" =>
    LET p == probe.params
        out == probe.out
        extracted == Supplied(p.vaultUrl) /\ extractClusterId(p.vaultUrl) # Null
    IN /\ out.isValid <=> (Supplied(p.vaultId) /\ Supplied(p.vaultUrl) /\ extracted)
       /\ out.config.defined <=> out.isValid
       /\ (out.error # Undefined) <=> ~out.isValid
       /\ ~Supplied(p.vaultId) => out.error = ErrVaultIdRequired
       /\ Supplied(p.vaultId) /\ ~Supplied(p.vaultUrl)
            => out.error = ErrVaultUrlRequired
       /\ Supplied(p.vaultId) /\ Supplied(p.vaultUrl) /\ ~extracted
            => out.error = ErrVaultUrlFormat
       /\ ErrVaultIdRequired # ErrVaultUrlRequired
       /\ ErrVaultIdRequired # ErrVaultUrlFormat
       /\ ErrVaultUrlRequired # ErrVaultUrlFormat

\* validateVaultConfig was called without a vault id and without a URL and
\* reported the vault id
C21_Witness ==
  /\ probe.fn = "validateVaultConfig"
  /\ ~Supplied(probe.params.vaultId)
  /\ ~Supplied(probe.params.vaultUrl)
  /\ ~probe.out.isValid
  /\ probe.out.error = ErrVaultIdRequired

\* the handler of the served request built the backend client
Built(run) == run.out.skyflow.id # 0

\* C22: in every valid result of validateVaultConfig, clusterId equals
\* extractClusterId(vaultUrl), and vaultId, vaultUrl, accountId and
\* workspaceId are returned exactly as supplied (absent optional fields stay
\* undefined); the clusterId handed to the per-request backend client is
\* this derived value
C22_ClusterDerivedFromUrl ==
  probe.fn = "pipeline" /\ probe.run.validated /\ probe.run.validation.isValid =>
    LET params == probe.run.params
        cfg == probe.run.validation.config
    IN /\ cfg.clusterId = extractClusterId(params.vaultUrl)
       /\ cfg.clusterId # Null
       /\ cfg.vaultId = params.vaultId
       /\ cfg.vaultUrl = params.vaultUrl
       /\ cfg.accountId = params.accountId
       /\ cfg.workspaceId = params.workspaceId
       /\ Built(probe.run) =>
            /\ probe.run.out.skyflow.clusterId = extractClusterId(params.vaultUrl)
            /\ probe.run.out.skyflow.vaultId = params.vaultId

\* a request with its own vault URL and no workspace id was validated and
\* its backend client was built with the cluster of that URL
C22_Witness ==
  /\ probe.fn = "pipeline"
  /\ probe.inp.vaultUrl = Str_url
  /\ probe.run.validation.isValid
  /\ probe.run.validation.config.workspaceId = Undefined
  /\ probe.run.validation.config.accountId # Undefined
  /\ Built(probe.run)
  /\ probe.run.out.skyflow.clusterId = <<"c", "1">>

\* s without a leading https:// or http://
WithoutScheme(s) ==
  IF StartsWith(s, HttpsPrefix) THEN Substring(s, Len(HttpsPrefix))
  ELSE IF StartsWith(s, HttpPrefix) THEN Substring(s, Len(HttpPrefix))
  ELSE s

\* s up to its first "/"
RECURSIVE BeforeSlash(_)
BeforeSlash(s) ==
  IF Len(s) = 0 \/ Head(s) = "/" THEN <<>>
  ELSE <<Head(s)>> \o BeforeSlash(Tail(s))

\* the leading dot-delimited segment of the host when the segment after it
\* is the literal vault, Null when the URL has no such shape
LeadingCluster(s) ==
  LET segments == Split(BeforeSlash(WithoutScheme(s)), ".") IN
    IF Len(segments) >= 2 /\ Len(segments[1]) > 0 /\ segments[2] = Str_vaultSegment
      THEN segments[1]
      ELSE Null

\* C23: extractClusterId returns the leading dot-delimited segment that
\* immediately precedes the literal segment "vault", after an optional
\* http:// or https:// prefix, and null when the URL has no such shape; a
\* trailing path does not change the result
C23_LeadingSegmentBeforeVault ==
  probe.fn = "extractClusterId" =>
    /\ probe.out = LeadingCluster(probe.url.text)
    /\ probe.out =
         extractClusterId(Url(probe.url.scheme, probe.url.segments, <<>>).text)

\* the URLs the claim lists give what it lists, and every URL of the shape
\* the claim describes gives its leading segment
ShapedUrlsExtract ==
  probe.fn = "extractClusterId" =>
    /\ probe.url \in ExampleUrls => probe.out = LeadingCluster(probe.url.text)
    /\ LeadingCluster(probe.url.text) # Null
         => probe.out = LeadingCluster(probe.url.text)

\* NAME: a letter or underscore, then letters, digits and underscores
NameShaped(name) ==
  /\ Len(name) >= 1
  /\ \A i \in 1..Len(name) :
       \/ name[i] \in UpperChars \cup LowerChars \cup {"_"}
       \/ i > 1 /\ name[i] \in DigitChars

\* the whole of v is ${NAME}, $NAME, {{NAME}} or %NAME%
PlaceholderShaped(v) ==
  /\ v # Undefined
  /\ \E i \in 1..Len(v), j \in 1..Len(v) :
       LET name == SubSeq(v, i, j) IN
         /\ NameShaped(name)
         /\ v \in {<<"$", "{">> \o name \o <<"}">>,
                   <<"$">> \o name,
                   <<"{", "{">> \o name \o <<"}", "}">>,
                   <<"%">> \o name \o <<"%">>}

\* C24: looksLikePlaceholder(v) is true iff the whole string v is exactly
\* one of ${NAME}, $NAME, {{NAME}}, %NAME% with NAME matching
\* [A-Z_][A-Z0-9_]* case-insensitively; it is false for undefined, the
\* empty string, the empty-name forms, real vault ids and URLs, and any
\* string that merely contains a placeholder inside other text
C24_PlaceholderIffWholeString ==
  probe.fn = "looksLikePlaceholder" =>
    /\ probe.out <=> PlaceholderShaped(probe.value)
    /\ probe.value \in {Undefined, <<>>, <<"$", "{", "}">>,
                         <<"{", "{", "}", "}">>, <<"%", "%">>, Str_url,
                         <<"x", " ", "$", "{", "A", "}">>,
                         <<"$", "{", "A", "}", " ", "x">>,
                         <<"$", "{", "a", "}", "1">>}
         => ~probe.out

\* looksLikePlaceholder was called with {{a}} and said yes
C24_Witness ==
  /\ probe.fn = "looksLikePlaceholder"
  /\ probe.value = <<"{", "{", "a", "}", "}">>
  /\ probe.out

\* ------------------------------------------------------------------------
\* The placeholder fallback of the handler
\* ------------------------------------------------------------------------
\* the served request carried credentials of its own
Credentialed(run) == run.resolved.pc = "limiter" /\ ~run.resolved.isAnonymousMode

\* the response is the 400 of the placeholder check
PlaceholderRejected(run) ==
  /\ run.out.pc = "rejected"
  /\ run.out.status = {BadRequest}
  /\ run.out.error = ErrPlaceholders

\* nothing was built for the request
NothingBound(req) ==
  /\ ~req.asyncStore.bound
  /\ req.skyflow = NoSkyflow
  /\ req.transport = NoTransport

\* C25: a request carrying client credentials whose vaultId and vaultUrl
\* query parameters are un-rendered placeholders proceeds, when all three
\* ANON_MODE_* values are set, with the anonymous vault configuration and
\* the anonymous credentials and a bound context flagged anonymous instead
\* of the 400 of the placeholder check; when the anonymous fallback is not
\* configured it is rejected with 400 and no context is bound
C25_PlaceholdersFallBack ==
  (/\ probe.fn = "pipeline"
   /\ Credentialed(probe.run)
   /\ PlaceholderShaped(probe.inp.vaultId)
   /\ PlaceholderShaped(probe.inp.vaultUrl)) =>
    LET run == probe.run
        e == probe.env
    IN IF AllAnonSet(e)
         THEN /\ ~PlaceholderRejected(run)
              /\ run.validated
              /\ run.params.vaultId = e.ANON_MODE_VAULT_ID
              /\ run.params.vaultUrl = e.ANON_MODE_VAULT_URL
              /\ run.out.skyflowCredentials = ApiKeyCredentials(e.ANON_MODE_API_KEY)
              /\ run.validation.isValid /\ probe.sdkAccepts
                   => /\ run.out.status = {}
                      /\ run.out.asyncStore.bound
                      /\ run.out.asyncStore.isAnonymousMode
                      /\ run.out.asyncStore.vaultId = e.ANON_MODE_VAULT_ID
                      /\ run.out.skyflow.credentials
                           = ApiKeyCredentials(e.ANON_MODE_API_KEY)
              /\ run.out.asyncStore.bound => run.out.asyncStore.isAnonymousMode
         ELSE /\ PlaceholderRejected(run)
              /\ NothingBound(run.out)

\* a request with an API key of its own and two placeholders was served
\* under the anonymous configuration and bound an anonymous context
C25_Witness ==
  /\ probe.fn = "pipeline"
  /\ Credentialed(probe.run)
  /\ probe.inp.vaultId = Str_phVault
  /\ probe.inp.vaultUrl = Str_phUrl
  /\ AllAnonSet(probe.env)
  /\ probe.run.out.asyncStore.bound
  /\ probe.run.out.asyncStore.isAnonymousMode
  /\ probe.run.out.skyflow.credentials = ApiKeyCredentials(Str_anonKey)

\* the handler put the anonymous configuration in the place of what the
\* credentialed request brought
Switched(run) ==
  /\ Credentialed(run)
  /\ \/ run.out.anonVaultConfig.defined
     \/ run.out.skyflowCredentials # run.resolved.skyflowCredentials
     \/ run.out.asyncStore.bound /\ run.out.asyncStore.isAnonymousMode

\* C26: the anonymous fallback configuration is substituted for a
\* credentialed request only when both the vaultId and the vaultUrl query
\* parameters look like placeholders (and anonymous mode is available); a
\* credentialed request in which at most one of the two is a placeholder
\* is never switched to anonymous mode
C26_BothPlaceholdersNeeded ==
  probe.fn = "pipeline" /\ Switched(probe.run) =>
    /\ PlaceholderShaped(probe.inp.vaultId)
    /\ PlaceholderShaped(probe.inp.vaultUrl)
    /\ AllAnonSet(probe.env)

\* a credentialed request is switched only when at least one of the two
\* parameters looks like a placeholder and anonymous mode is available
SwitchNeedsPlaceholder ==
  probe.fn = "pipeline" /\ Switched(probe.run) =>
    /\ PlaceholderShaped(probe.inp.vaultId) \/ PlaceholderShaped(probe.inp.vaultUrl)
    /\ AllAnonSet(probe.env)

\* ------------------------------------------------------------------------
\* Credentials through the pipeline
\* ------------------------------------------------------------------------
\* credential resolution has assigned the credentials of the request
Resolved(req) == Len(req.trail) >= 1 /\ req.trail[1] = "credentials"

\* C27: once the credentials and the vault configuration of a request have
\* been derived, no later step of the pipeline (rate limiting, placeholder
\* handling, vault validation, backend construction, handling) replaces
\* them, and the credentials the backend client is built with are those
\* the resolver produced
C27_CredentialsImmutable ==
  [][\A r \in Requests :
       Resolved(reqs[r]) =>
         /\ reqs'[r].skyflowCredentials = reqs[r].skyflowCredentials
         /\ reqs'[r].anonVaultConfig = reqs[r].anonVaultConfig
         /\ reqs'[r].skyflow.id # 0
              => reqs'[r].skyflow.credentials = reqs[r].skyflowCredentials]_vars

\* the credentials of a resolved request change in one step only: the
\* handler, for a credentialed request with a placeholder parameter under
\* an environment with the anonymous fallback; a backend client carries the
\* credentials the request holds when it is built
ReplacedOnlyByFallback ==
  [][\A r \in Requests :
       /\ reqs'[r].skyflow.id # 0
            => reqs'[r].skyflow.credentials = reqs'[r].skyflowCredentials
       /\ (/\ Resolved(reqs[r])
           /\ \/ reqs'[r].skyflowCredentials # reqs[r].skyflowCredentials
              \/ reqs'[r].anonVaultConfig # reqs[r].anonVaultConfig)
          => (/\ reqs[r].pc = "handler"
              /\ ~reqs[r].isAnonymousMode
              /\ \/ PlaceholderShaped(reqs[r].inp.vaultId)
                 \/ PlaceholderShaped(reqs[r].inp.vaultUrl)
              /\ AllAnonSet(env)
              /\ reqs'[r].skyflowCredentials
                   = ApiKeyCredentials(env.ANON_MODE_API_KEY))]_vars

\* ------------------------------------------------------------------------
\* The rate-limit response
\* ------------------------------------------------------------------------
\* the resetTime of the window the latest call fell in: that of the entry
\* it found, or of the one it created
ResetTimeOfCall ==
  IF lastCall.before.present /\ lastCall.at <= lastCall.before.resetTime
    THEN lastCall.before.resetTime
    ELSE lastCall.at + config.windowMs

\* ceil((resetTime - now) / 1000) of the latest call
ResetSecondsOfCall ==
  LET ms == ResetTimeOfCall - lastCall.at IN
    IF ms % MsPerSecond = 0 THEN ms \div MsPerSecond ELSE ms \div MsPerSecond + 1

\* the 429 response of the latest call carries the three headers and the
\* body field with the values of the claim
RejectionShape ==
  (lastCall.made /\ lastCall.anon /\ ~lastCall.next) =>
    /\ lastCall.status = {TooManyRequests}
    /\ lastCall.headers =
         {<<"X-RateLimit-Limit", config.maxRequests>>,
          <<"X-RateLimit-Remaining", 0>>,
          <<"X-RateLimit-Reset", ResetSecondsOfCall>>}
    /\ lastCall.body = {<<"retryAfterSeconds", ResetSecondsOfCall>>}

\* C28: every rate-limit rejection is a 429 response with headers
\* X-RateLimit-Limit = maxRequests, X-RateLimit-Remaining = 0,
\* X-RateLimit-Reset = resetSeconds and a body whose retryAfterSeconds =
\* resetSeconds = ceil((resetTime - now) / 1000); resetSeconds is strictly
\* greater than 0 in every 429 response and in the X-RateLimit-Reset header
\* of every allowed anonymous response
C28_ResetSecondsPositive ==
  /\ RejectionShape
  /\ (lastCall.made /\ lastCall.anon) =>
       /\ HasHeader(lastCall.headers, "X-RateLimit-Reset")
       /\ HeaderValue(lastCall.headers, "X-RateLimit-Reset") = ResetSecondsOfCall
       /\ HeaderValue(lastCall.headers, "X-RateLimit-Reset") > 0

\* the reset value is never negative, and it is 0 exactly for a call made
\* at the resetTime of the entry it found
ResetSecondsZeroAtResetTime ==
  /\ RejectionShape
  /\ (lastCall.made /\ lastCall.anon) =>
       /\ HeaderValue(lastCall.headers, "X-RateLimit-Reset") = ResetSecondsOfCall
       /\ ResetSecondsOfCall >= 0
       /\ ResetSecondsOfCall = 0
            <=> (lastCall.before.present /\ lastCall.at = lastCall.before.resetTime)

\* ------------------------------------------------------------------------
\* The configuration of the limiter
\* ------------------------------------------------------------------------
\* the text of a positive integer: decimal digits, not all of them 0
PositiveIntegerText(v) ==
  /\ v # Undefined
  /\ Len(v) >= 1
  /\ \A i \in 1..Len(v) : v[i] \in DigitChars
  /\ \E i \in 1..Len(v) : v[i] # "0"

\* what the claim lets one variable become: the default when it is not
\* provided, its number when it is the text of a positive integer, and
\* nothing otherwise
Configured(v, default) ==
  IF v = Undefined THEN {DecimalValue(default)}
  ELSE IF PositiveIntegerText(v) THEN {DecimalValue(v)}
  ELSE {}

\* C29: getAnonymousRateLimitConfig returns {maxRequests, windowMs} only
\* when both configured values are positive integers; every non-positive or
\* non-numeric value of either variable makes it throw and is never
\* replaced by the default; the defaults 10 and 60000 apply only when the
\* variable is not provided
C29_InvalidConfigThrows ==
  probe.fn = "getAnonymousRateLimitConfig" =>
    LET requests == Configured(probe.env.ANON_MODE_RATE_LIMIT_REQUESTS,
                               Str_defaultRequests)
        window == Configured(probe.env.ANON_MODE_RATE_LIMIT_WINDOW_MS,
                             Str_defaultWindowMs)
    IN IF requests = {} \/ window = {}
         THEN probe.out.threw
         ELSE /\ ~probe.out.threw
              /\ probe.out.value =
                   {[maxRequests |-> m, windowMs |-> w] : m \in requests, w \in window}

\* what is returned is a pair of positive integers; a variable that is
\* unset or the text of a positive integer never makes the call throw, and
\* the text of a positive integer is returned as its number
ReturnedConfigPositive ==
  probe.fn = "getAnonymousRateLimitConfig" =>
    LET r == probe.env.ANON_MODE_RATE_LIMIT_REQUESTS
        w == probe.env.ANON_MODE_RATE_LIMIT_WINDOW_MS
    IN /\ ~probe.out.threw =>
            \A c \in probe.out.value :
              /\ c.maxRequests \in Nat \ {0}
              /\ c.windowMs \in Nat \ {0}
              /\ r = Undefined => c.maxRequests = DecimalValue(Str_defaultRequests)
              /\ w = Undefined => c.windowMs = DecimalValue(Str_defaultWindowMs)
              /\ PositiveIntegerText(r) => c.maxRequests = DecimalValue(r)
              /\ PositiveIntegerText(w) => c.windowMs = DecimalValue(w)
       /\ (r = Undefined \/ PositiveIntegerText(r))
            /\ (w = Undefined \/ PositiveIntegerText(w)) => ~probe.out.threw

\* ------------------------------------------------------------------------
\* Failure of the backend construction
\* ------------------------------------------------------------------------
\* the handler of the served request reached new Skyflow(...) and the
\* constructor threw
ConstructionFailed ==
  /\ probe.fn = "pipeline"
  /\ probe.run.validated
  /\ probe.run.validation.isValid
  /\ ~probe.sdkAccepts

\* C30 as stated: when construction of the per-request backend client
\* fails, the request gets the same unauthorized response as a request with
\* missing or invalid credentials, indistinguishable to the caller; no
\* transport is created, no context is bound and nothing propagates
C30_SameAsMissingCredentials ==
  ConstructionFailed =>
    /\ probe.run.out.pc = "rejected"
    /\ probe.run.out.status = {Unauthorized}
    /\ probe.run.out.error = ErrMissingCredentials
    /\ NothingBound(probe.run.out)
    /\ ~probe.run.out.threw

\* C30: when construction of the per-request backend client fails, the
\* failure is caught and the request gets a 401 response of the same shape
\* as a request with missing or invalid credentials, with a message of its
\* own; no transport is created, no listener registered, no context bound,
\* and the failure does not propagate
C30_ConstructionFailureIs401 ==
  ConstructionFailed =>
    /\ probe.run.out.pc = "rejected"
    /\ probe.run.out.status = {Unauthorized}
    /\ probe.run.out.error = ErrInvalidCredentials
    /\ ErrInvalidCredentials # ErrMissingCredentials
    /\ NothingBound(probe.run.out)
    /\ ~probe.run.out.closeListener
    /\ ~probe.run.out.threw

\* a request with a JWT and a vault of its own reached the constructor,
\* which threw, and was answered 401
C30_Witness ==
  /\ ConstructionFailed
  /\ probe.run.resolved.skyflowCredentials = TokenCredentials(Str_jwt)
  /\ probe.inp.vaultUrl = Str_url
  /\ probe.run.out.status = {Unauthorized}
  /\ probe.run.out.trail = <<"credentials", "limiter", "vault", "construct">>

\* ------------------------------------------------------------------------
\* Properties of the cleanup interval
\* ------------------------------------------------------------------------
\* the entries of the store whose window is still open at the clock value
StillOpen(store, clock) ==
  [k \in {x \in DOMAIN store : ~(clock > store[x].resetTime)} |-> store[k]]

\* a step of the interval's callback leaves exactly the open entries
SweepRemovesExactlyExpired ==
  (timer' # timer) => rateLimitStore' = StillOpen(rateLimitStore, now)

\* no stored entry is older than one cleanup interval past its window
StaleWithinInterval ==
  \A k \in DOMAIN rateLimitStore :
    rateLimitStore[k].resetTime >= now - CLEANUP_INTERVAL_MS

\* the entry of the key with this resetTime is in the store
Stored(k, t) ==
  k \in DOMAIN rateLimitStore /\ rateLimitStore[k].resetTime = t

\* the reset times an entry can have before the clock's last value
SweepResetTimes ==
  {t \in {SweepStepMs * n : n \in 1..(StepsPerInterval * SweepRounds)} :
     t < SweepHorizon}

\* every entry whose window ends before the clock's last value leaves
\* the store
ExpiredEventuallyRemoved ==
  \A id \in Identities : \A t \in SweepResetTimes :
    Stored(KeyOf(id), t) ~> ~Stored(KeyOf(id), t)

ToolRan == probe.fn = "tool" /\ probe.context.bound

\* the callback made one call on the backend client, on the client of
\* its own context
InvokedBackend ==
  /\ Len(probe.out.backend) = 1
  /\ probe.out.backend[1].skyflow = probe.context.skyflow
  /\ ~probe.out.anonymousModeRestricted

\* the callback returned the anonymous-mode error result and made no call
\* on the backend client
RestrictedResult ==
  /\ probe.out.backend = <<>>
  /\ ~probe.out.threw
  /\ probe.out.isError
  /\ probe.out.anonymousModeRestricted

\* C32: in an anonymous bound context only dehydrate reaches the backend;
\* rehydrate and dehydrate_file return an error result (isError,
\* anonymousModeRestricted) without invoking the backend client; in a
\* non-anonymous context all three tools invoke the backend
C32_AnonymousOnlyDehydrates ==
  ToolRan =>
    /\ probe.context.isAnonymousMode =>
         IF probe.tool = "dehydrate" THEN InvokedBackend ELSE RestrictedResult
    /\ ~probe.context.isAnonymousMode => InvokedBackend
    /\ ReachesBackend(probe.tool, probe.context) <=> probe.out.backend # <<>>

\* rehydrate ran in an anonymous context built with the anonymous key and
\* returned the restricted error without a backend call
C32_Witness ==
  /\ ToolRan
  /\ probe.tool = "rehydrate"
  /\ probe.context.isAnonymousMode
  /\ probe.context.skyflow.credentials = ApiKeyCredentials(Str_anonKey)
  /\ probe.out.error = ErrRehydrateAnonymous
  /\ RestrictedResult

\* ------------------------------------------------------------------------
\* Properties of the entries of the store
\* ------------------------------------------------------------------------
\* this step is a call of the middleware that was answered 429
RejectedCall ==
  /\ lastCall' # lastCall
  /\ lastCall'.status = {TooManyRequests}

\* C33: a rejected (429) request leaves the store unchanged: neither the
\* count nor the resetTime of the client's entry changes, so a client
\* that keeps asking while limited cannot extend its window or push its
\* count above maxRequests
C33_RejectionLeavesStore ==
  [][RejectedCall =>
       /\ rateLimitStore' = rateLimitStore
       /\ lastCall'.before.present
       /\ lastCall'.before.count = config.maxRequests
       /\ EntryOf(rateLimitStore', KeyOf(lastCall'.id)) = lastCall'.before]_vars

\* a client was rejected twice in one window and its entry is as the
\* first rejection found it
C33_Witness ==
  /\ lastCall.made
  /\ lastCall.status = {TooManyRequests}
  /\ win[lastCall.id].k >= win[lastCall.id].admitted + 2
  /\ EntryOf(rateLimitStore, KeyOf(lastCall.id)) = lastCall.before
  /\ lastCall.before.count = config.maxRequests

\* the entry a request creates and counts itself in
FirstOfWindow == [count |-> 1, resetTime |-> now + config.windowMs]

\* this step is an allowed anonymous call of the client with this key
AdmittedCall(k) ==
  /\ lastCall' # lastCall
  /\ lastCall'.anon
  /\ lastCall'.next
  /\ KeyOf(lastCall'.id) = k

\* how the entry under a key changes in one step: not at all, by one
\* count for an allowed request, or by replacement once its window has
\* run out
EntryStep(k) ==
  LET old == rateLimitStore[k]
      new == rateLimitStore'[k]
  IN IF new.resetTime = old.resetTime
       THEN /\ new.count \in {old.count, old.count + 1}
            /\ new.count = old.count + 1 <=> AdmittedCall(k)
       ELSE /\ now > old.resetTime
            /\ new = FirstOfWindow
            /\ AdmittedCall(k)

\* C34: the window is fixed, not sliding: resetTime is set once, to the
\* creation time + windowMs, and no allowed or rejected request changes
\* it; within a window count only increases, by exactly 1 per allowed
\* request, and it starts again only by replacement of the entry after
\* expiry
C34_FixedWindow ==
  [][\A k \in DOMAIN rateLimitStore' :
       IF k \in DOMAIN rateLimitStore
         THEN EntryStep(k)
         ELSE rateLimitStore'[k] = FirstOfWindow /\ AdmittedCall(k)]_vars

\* a second request was counted in a window opened at an earlier clock
\* value: the resetTime is still the one of the creation
C34_Witness ==
  /\ lastCall.made
  /\ lastCall.next
  /\ lastCall.anon
  /\ lastCall.before.present
  /\ lastCall.at > 0
  /\ lastCall.before.resetTime < lastCall.at + config.windowMs
  /\ EntryOf(rateLimitStore, KeyOf(lastCall.id)) =
       [present |-> TRUE, count |-> lastCall.before.count + 1,
        resetTime |-> lastCall.before.resetTime]

\* ------------------------------------------------------------------------
\* Properties of the bound context
\* ------------------------------------------------------------------------
\* the request was served up to the bound context
BoundRun == probe.fn = "pipeline" /\ probe.run.out.asyncStore.bound

\* the backend client of the context holds the operator's anonymous API
\* key and targets the anonymous vault
BuiltAnonymous(run, e) ==
  /\ AllAnonSet(e)
  /\ run.out.asyncStore.skyflow.credentials = ApiKeyCredentials(e.ANON_MODE_API_KEY)
  /\ run.out.asyncStore.skyflow.vaultId = e.ANON_MODE_VAULT_ID
  /\ run.out.asyncStore.skyflow.clusterId = extractClusterId(e.ANON_MODE_VAULT_URL)
  /\ run.out.asyncStore.vaultId = e.ANON_MODE_VAULT_ID

\* C35 as stated: in every bound context isAnonymous is true iff the
\* backend client was built with the operator's anonymous API key and the
\* anonymous vault id/url; a non-anonymous context is never built with the
\* anonymous API key
C35_AnonymousIffAnonymousKey ==
  BoundRun =>
    /\ probe.run.out.asyncStore.isAnonymousMode <=> BuiltAnonymous(probe.run, probe.env)
    /\ ~probe.run.out.asyncStore.isAnonymousMode =>
         probe.run.out.asyncStore.skyflow.credentials #
           ApiKeyCredentials(probe.env.ANON_MODE_API_KEY)

\* C35: a context flagged anonymous is always built with the operator's
\* anonymous API key and the anonymous vault id/url, whatever vaultId and
\* vaultUrl the client sent; a context not flagged anonymous is built with
\* the credentials the request presented, which are the anonymous API key
\* only when the client presented that key itself
C35_AnonymousBuiltFromEnv ==
  BoundRun =>
    LET run == probe.run
        context == run.out.asyncStore
    IN /\ context.isAnonymousMode => BuiltAnonymous(run, probe.env)
       /\ ~context.isAnonymousMode =>
            /\ Credentialed(run)
            /\ context.skyflow.credentials = run.resolved.skyflowCredentials
            /\ run.resolved.skyflowCredentials =
                 extractCredentials(probe.inp.authorization, probe.inp.apiKey).credentials
            /\ context.skyflow.credentials = ApiKeyCredentials(probe.env.ANON_MODE_API_KEY)
                 => probe.inp.authorization = BearerPrefix \o probe.env.ANON_MODE_API_KEY

\* a request without credentials named a vault of its own and was bound
\* to the anonymous vault with the anonymous key
C35_Witness ==
  /\ BoundRun
  /\ probe.inp.authorization = Undefined
  /\ probe.inp.apiKey = Undefined
  /\ probe.inp.vaultId = Str_vault
  /\ probe.inp.vaultUrl = Str_url
  /\ probe.run.out.asyncStore.isAnonymousMode
  /\ BuiltAnonymous(probe.run, probe.env)
  /\ probe.run.out.asyncStore.skyflow.vaultId = Str_anonVault

\* ------------------------------------------------------------------------
\* Properties of the quota of rejected requests
\* ------------------------------------------------------------------------
\* request r was counted by the limiter and then answered 400 or 401 by
\* the handler
CountedThenRejected(r) ==
  /\ reqs[r].isAnonymousMode
  /\ reqs[r].counted
  /\ reqs[r].pc = "rejected"
  /\ reqs[r].status \in {{BadRequest}, {Unauthorized}}

\* the count of request r is still in the entry of its client, for as long
\* as the window it was counted in is open
QuotaKept ==
  \A r \in Requests :
    CountedThenRejected(r) /\ ~(now > reqs[r].held.resetTime) =>
      LET entry == EntryOf(rateLimitStore, KeyOfRequest(r))
      IN /\ entry.present
         /\ entry.resetTime = reqs[r].held.resetTime
         /\ entry.count >= reqs[r].held.count + 1

\* no step takes a count back: an entry goes, or starts again, only once
\* its window has run out
NoRollback ==
  \A k \in DOMAIN rateLimitStore :
    \/ now > rateLimitStore[k].resetTime
    \/ /\ k \in DOMAIN rateLimitStore'
       /\ rateLimitStore'[k].resetTime = rateLimitStore[k].resetTime
       /\ rateLimitStore'[k].count >= rateLimitStore[k].count

\* the handler leaves the store alone when it rejects a counted request
RejectionKeepsStore ==
  \A r \in Requests :
    reqs[r].pc = "handler" /\ reqs'[r].pc = "rejected" =>
      rateLimitStore' = rateLimitStore

\* C36: quota is consumed at admission, before vault validation and
\* backend construction: an anonymous request admitted by the limiter and
\* then rejected with 400 or 401 has incremented its client's count by 1,
\* and the increment is never rolled back
C36_QuotaConsumedAtAdmission ==
  /\ []QuotaKept
  /\ [][NoRollback /\ RejectionKeepsStore]_vars

\* an anonymous request was counted and then refused by the handler, and
\* the next request of the same client met the limit in the same window
C36_Witness ==
  \E r \in Requests, q \in Requests :
    /\ CountedThenRejected(r)
    /\ reqs[r].held.count = 0
    /\ reqs[q].pc = "rejected"
    /\ reqs[q].status = {TooManyRequests}
    /\ reqs[q].held.resetTime = reqs[r].held.resetTime
    /\ QuotaKept
    /\ ~(now > reqs[r].held.resetTime)

\* ------------------------------------------------------------------------
\* Properties of the swept and the unswept run (SpecShadow)
\* ------------------------------------------------------------------------
\* C37: the background sweep is observationally transparent: for every
\* sequence of anonymous requests and clock values the decisions and the
\* remaining and resetSeconds values reported are the same whether sweeps
\* run at arbitrary points between requests or never; the two stores
\* differ only in entries whose window has run out
C37_SweepTransparent ==
  /\ twin.made =>
       /\ twin.next = twin.firstNext
       /\ twin.status = twin.firstStatus
       /\ twin.headers = twin.firstHeaders
       /\ twin.body = twin.firstBody
  /\ StillOpen(rateLimitStore, now) = StillOpen(twin.store, now)
  /\ \A k \in DOMAIN rateLimitStore :
       k \in DOMAIN twin.store /\ twin.store[k] = rateLimitStore[k]

\* a client whose entry the sweep had removed in one run, and which was
\* still stored in the other, made a request and was admitted in both
C37_Witness ==
  /\ twin.made
  /\ twin.sweptAway
  /\ twin.next
  /\ twin.firstNext
  /\ twin.headers # {}
  /\ \E k \in DOMAIN twin.store : k \notin DOMAIN rateLimitStore

\* ------------------------------------------------------------------------
\* Properties of a limited client (SpecLockout)
\* ------------------------------------------------------------------------
\* the client is rate-limited in the window that ends at t
Limited(id, t) ==
  LET entry == EntryOf(rateLimitStore, KeyOf(id))
  IN /\ entry.present
     /\ entry.resetTime = t
     /\ entry.count >= config.maxRequests
     /\ ~(now > t)

\* the latest call is a request of the client made after t and it was
\* admitted
AdmittedAfter(id, t) ==
  /\ lastCall.made
  /\ lastCall.anon
  /\ lastCall.id = id
  /\ lastCall.at > t
  /\ lastCall.next

\* a request made once the resetTime of the entry it finds has passed is
\* admitted as the first of a new window
FirstAfterResetAdmitted ==
  (/\ lastCall.made
   /\ lastCall.anon
   /\ lastCall.before.present
   /\ lastCall.at > lastCall.before.resetTime) =>
    /\ lastCall.next
    /\ lastCall.status = {}
    /\ <<"X-RateLimit-Remaining", config.maxRequests - 1>> \in lastCall.headers

\* the reset times that end before the clock's last value
LockoutResetTimes == {TickMs * n : n \in 1..(MaxTicks - 1)}

\* a request of the client made now would be admitted
Admissible(id) ==
  \A a \in Addrs :
    getClientId(LimiterReq(a, TRUE)) = id =>
      anonymousRateLimiter(rateLimitStore, now, config, LimiterReq(a, TRUE)).next

\* C38: no permanent lockout: if the clock keeps advancing, a client that
\* is rate-limited is eventually admitted again, on its first request made
\* after the resetTime of its entry has passed, however many requests it
\* sent while it was limited
C38_NoPermanentLockout ==
  /\ []FirstAfterResetAdmitted
  /\ \A id \in Identities : \A t \in LockoutResetTimes :
       Limited(id, t) ~> (now > t /\ Admissible(id)) \/ AdmittedAfter(id, t)

\* a client that was refused more than once in a window was admitted by
\* its first request after the window
C38_Witness ==
  /\ lastCall.made
  /\ lastCall.anon
  /\ lastCall.next
  /\ lastCall.before.present
  /\ lastCall.before.count >= config.maxRequests
  /\ lastCall.at > lastCall.before.resetTime
  /\ win[lastCall.id].k = 1

\* ------------------------------------------------------------------------
\* Properties of the outcome of a request
\* ------------------------------------------------------------------------
\* the terminal outcomes of a request: which middleware answered, with
\* what, after which calls of next()
Outcome401Credentials(req) ==
  /\ req.pc = "rejected"
  /\ req.status = {Unauthorized}
  /\ req.error = ErrMissingCredentials
  /\ req.trail = <<>>

Outcome429(req) ==
  /\ req.pc = "rejected"
  /\ req.status = {TooManyRequests}
  /\ req.trail = <<"credentials">>

Outcome400(req) ==
  /\ req.pc = "rejected"
  /\ req.status = {BadRequest}
  /\ req.trail = <<"credentials", "limiter">>

Outcome401Construction(req) ==
  /\ req.pc = "rejected"
  /\ req.status = {Unauthorized}
  /\ req.error = ErrInvalidCredentials
  /\ req.trail = <<"credentials", "limiter", "vault", "construct">>

OutcomeBound(req) ==
  /\ req.pc \in {"connecting", "backend", "finished"}
  /\ req.status = {}
  /\ req.asyncStore.bound
  /\ req.trail = <<"credentials", "limiter", "vault", "construct", "backend", "bound">>

\* how many of the five outcomes the request has
Outcomes(req) ==
  Cardinality({i \in 1..5 :
    \/ i = 1 /\ Outcome401Credentials(req)
    \/ i = 2 /\ Outcome429(req)
    \/ i = 3 /\ Outcome400(req)
    \/ i = 4 /\ Outcome401Construction(req)
    \/ i = 5 /\ OutcomeBound(req)})

\* the request is between two middlewares: every middleware that ran
\* called next() once and none has answered
InChain(req) ==
  /\ req.status = {}
  /\ ~req.asyncStore.bound
  /\ \/ req.pc = "auth" /\ req.trail = <<>>
     \/ req.pc \in {"limiter", "increment"} /\ req.trail = <<"credentials">>
     \/ req.pc = "handler" /\ req.trail = <<"credentials", "limiter">>

\* the middleware the request is waiting for ends in next() or in a
\* response
NextOrResponse(r) ==
  LET req == reqs[r]
      limiterReq == LimiterReq(req.inp, req.isAnonymousMode)
  IN /\ req.pc = "auth" =>
          authenticateBearer(req, env).pc \in {"limiter", "rejected"}
     /\ req.pc = "limiter" =>
          LET checked == limiterCheck(rateLimitStore, now, config, limiterReq)
          IN checked.pending \/ checked.out.next \/ checked.out.status # {}
     /\ req.pc = "increment" =>
          limiterCount(rateLimitStore, config, limiterReq, req.held).next
     /\ req.pc = "handler" =>
          \A sdkAccepts \in BOOLEAN :
            mcpHandler(req, env, r, sdkAccepts).pc \in {"rejected", "connecting"}

\* C39: every request reaches exactly one terminal outcome among 401 from
\* credential resolution, 429 from the rate limiter, 400 from placeholder
\* or vault validation, 401 from backend construction, or context bound
\* and handled; each middleware either calls next() exactly once or sends
\* exactly one response, never both and never neither
C39_ExactlyOneOutcome ==
  \A r \in Requests :
    reqs[r].pc # "new" =>
      /\ IF reqs[r].pc \in {"auth", "limiter", "increment", "handler"}
           THEN InChain(reqs[r]) /\ Outcomes(reqs[r]) = 0
           ELSE Outcomes(reqs[r]) = 1
      /\ NextOrResponse(r)

\* two requests have ended, one answered by the limiter and one by the
\* constructor's 401, after the calls of next() that lead there
C39_Witness ==
  \E r \in Requests, q \in Requests :
    /\ Outcome429(reqs[r])
    /\ Outcome401Construction(reqs[q])
    /\ Outcomes(reqs[r]) = 1
    /\ Outcomes(reqs[q]) = 1

====
